---- MODULE Spec2Model ----
(***************************************************************************)
(* GPU telemetry pipeline: the in-memory broker (internal/broker/broker.go), *)
(* the producer's drain (cmd/streamer, reproduced in                        *)
(* architecture/docs/overview.md), the collector loop (cmd/collector), the  *)
(* in-memory store (internal/storage/memory.go) and the read API handler    *)
(* (cmd/api-gateway/server.go).                                             *)
(*                                                                         *)
(* Goroutines are processes; a step is one channel operation, one          *)
(* mutex-protected section or one call that returns a result.              *)
(***************************************************************************)
EXTENDS Integers, Sequences, FiniteSets, TLC

\* ------------------------------------------------------------------ bounds

\* Number of PublishBatch calls (calls that do not overlap in time are the
\* sequential calls of one publisher, overlapping ones are concurrent publishers).
NCalls == 2
\* Longest batch submitted in one PublishBatch call.
MaxBatch == 2
\* Number of records submitted over all the calls.
MaxRecs == 3
\* Number of Subscribe calls, and how many of them are in progress at a time.
NSub == 3
MaxLive == 2
\* Records submitted plus Subscribe calls begun: three records meet two
\* subscribers, two records meet three.
MaxLoad == 5
\* NewServer(queueCap, subBuf): the configured capacities.
QueueCap == 1
SubBuf == 1

\* The capacities of the broker in the delivery-order runs.
OrderQueueCap == 2
OrderSubBuf == 2

\* Producer: longest batch handed to drainRemaining, publish calls made by one
\* drain, and drains run by one runStreamer.
MaxDrain == 3
MaxPubCalls == 6
MaxDrains == 2

\* Collector: messages delivered on the subscription stream, batchSize, the
\* number of flush workers, and the capacity of the jobs channel (64 in the code).
MaxMsgs == 4
BatchSize == 2
NWorkers == 2
JobsCap == 1
\* Longest gpu_id, in characters, given to validate.
MaxGpuLen == 3

\* In-memory store: gpu ids (in string order), timestamps, SaveTelemetry calls.
NGpu == 2
MaxTime == 3
MaxSaves == 3
MaxCallerSaves == 2

\* API gateway: longest request path below /api/v1/gpus/, in tokens.
MaxPathLen == 4

Calls == 1..NCalls
Subs == 1..NSub

\* The k-th item of the batch of call c; items are told apart by identity.
Rec(c, k) == (c - 1) * MaxBatch + k
AllRecs == 1..(NCalls * MaxBatch)
NoRec == 0

Range(q) == {q[i] : i \in DOMAIN q}

\* ------------------------------------------------------------------ state

VARIABLES
    \* Server
    queueCap,           \* s.queueCap, the capacity of s.inbound
    subBuf,             \* s.subBuf, the capacity of each subscriber.ch
    inbound,            \* s.inbound, the buffered channel, oldest first
    subs,               \* s.subs, the registered subscribers in list order
    next,               \* s.next, the round-robin cursor
    subch,              \* subscriber.ch of each Subscribe call
    sid,                \* subscriber.id of each Subscribe call
    now,                \* the reading of time.Now(), named by the first Subscribe that read it
    \* prometheus counters and gauges
    metricEnqueued, metricDelivered, metricBackpressure, metricRequeued,
    metricSubscribers,
    \* PublishBatch calls
    ppc,                \* "idle", "loop", "done"
    batch,              \* req.Items
    pidx,               \* the loop index i
    accepted,           \* the local accepted
    resp,               \* the returned PublishResponse (status "ERROR": the error return)
    \* Subscribe calls
    spc,                \* "idle", "add", "wait", "send", "requeue", "ret", "done"
    hand,               \* msg, the record taken from sub.ch
    \* dispatcher goroutine
    dpc,                \* "recv", "snap", "try"
    dmsg,               \* msg
    dsubs,              \* subs, the snapshot
    dstart,             \* start
    di,                 \* i
    delivered,          \* delivered
    \* observations (not program state)
    enq,                \* per call: the items it put on inbound, in order
    attempts,           \* per call: the number of channel sends it tried
    sent,               \* the records some stream.Send accepted
    dropped,            \* records dropped by a requeue attempt that found inbound full
    rqPending,          \* <<r, k>>: r was put back on inbound while k was registered,
                        \* and no stream.Send has accepted r since
    dplaced,            \* subscribers whose buffer got the dispatcher's current msg
    steady,             \* so far: every subscriber was added before the first publish,
                        \* none left, and the dispatcher always found room in a buffer
    \* producer (streamer): runStreamer and drainRemaining
    rootDone,           \* the root context has been cancelled (SIGINT/SIGTERM)
    backoff,            \* runStreamer's backoff, in milliseconds
    drpc,               \* drainRemaining: "idle", "check", "call", "sleep"
    drainCtx,           \* the ctx argument: "root" or "background"
    remaining,          \* the remaining slice
    metricErrors,       \* streamer errors_total
    metricPublished,    \* streamer items_published_total
    metricStreamerBackpressure,  \* streamer backpressure_total
    \* observations of the producer
    drains,             \* drains begun
    dbatch,             \* the slice the current drain was called with
    fcCalls,            \* publish calls made by the current drain
    acked,              \* items the broker reported accepted under BACKPRESSURE in this drain
    lastResp,           \* the last response of the current drain
    waited,             \* the duration of the last time.After the drain armed (0: none)
    rsReturned,         \* runStreamer has returned
    \* collector: runCollectorLoop, its workers, and its environment
    collDone,           \* ctx of run()/runCollectorLoop has been cancelled
    stream,             \* messages the broker has sent that Recv has not returned yet
    streamEnded,        \* the broker has ended the stream
    tickPending,        \* ticker.C holds a tick
    lpc,                \* the loop: "select", "recv", "send", "wait", "done"
    closing,            \* the flush in progress is the final one (close(jobs) follows)
    cbatch,             \* batch
    cjob,               \* copyBatch, the job flush is sending
    jobs,               \* the jobs channel
    jobsClosed,         \* close(jobs) has run
    wpc,                \* per worker: "idle", "save", "exit"
    wjob,               \* per worker: the items of j not yet saved
    wtaken,             \* per worker: j.items of the job in hand (<<>>: none)
    timedOut,           \* the loop returned on the shutdown timeout
    recvErr,            \* err of the last stream.Recv(): "nil", "EOF", "canceled"
    cret,               \* what runCollectorLoop returned ("running": not yet)
    metricReceived, metricBatched, metricFlushed, metricDroppedInvalid,
    metricFlushErrors,
    \* observations of the collector
    arrived,            \* every message delivered on the stream, in order; a record's
                        \* identity is its position here
    saved,              \* per record: the number of successful SaveTelemetry calls
    handed,             \* per record: the number of jobs it was put in
    saveFailed,         \* some SaveTelemetry call returned an error
    \* validate as a function
    vmsg,               \* the argument m
    vres,               \* the result: "none" before the call, then "true" or "false"
    \* MemoryStore
    data,               \* m.data: per gpu id the saved records (no key: the empty slice)
    \* observations of the store
    savedLog,           \* the SaveTelemetry calls so far, in order; a record's id is
                        \* its position here
    qres,               \* the last QueryTelemetry call: arguments, result, and the
                        \* number of saves before it
    lres,               \* the last ListGPUs call: result and number of saves before it
    metricsOf,          \* the Metrics map objects, by the id of the record carrying them
    \* api gateway: one request to the handler of /api/v1/gpus/
    greq,               \* the request: method, path below the prefix, query values
    gstatus,            \* the status code written (0: no response yet)
    gquery,             \* the store.QueryTelemetry call made for it, and its outcome
    \* producer: the batching loop of runStreamer
    headers,            \* the CSV header row, lower-cased and trimmed
    csvRows,            \* the records of the CSV file below the header
    rpos,               \* the reader's position: the index of the record read next
    sbatch,             \* runStreamer's batch
    rspc,               \* where the loop is: "select", or the flush that called the drain
    tickReady,          \* flushTicker.C holds a tick
    metricIngested      \* streamer_ingested_total

configVars == <<queueCap, subBuf>>
serverVars == <<inbound, subs, next, subch, sid, now>>
metricVars == <<metricEnqueued, metricDelivered, metricBackpressure, metricRequeued,
                metricSubscribers>>
pubVars == <<ppc, batch, pidx, accepted, resp>>
subVars == <<spc, hand>>
dispVars == <<dpc, dmsg, dsubs, dstart, di, delivered>>
obsVars == <<enq, attempts, sent, dropped, rqPending, dplaced, steady>>
brokerVars == <<configVars, serverVars, metricVars, pubVars, subVars, dispVars, obsVars>>

prodVars == <<rootDone, backoff, drpc, drainCtx, remaining, metricErrors, metricPublished,
              metricStreamerBackpressure, drains, dbatch, fcCalls, acked, lastResp,
              waited, rsReturned>>

collVars == <<collDone, stream, streamEnded, tickPending, lpc, closing, cbatch, cjob, jobs,
              jobsClosed, wpc, wjob, wtaken, timedOut, recvErr, cret, metricReceived, metricBatched,
              metricFlushed, metricDroppedInvalid, metricFlushErrors, arrived, saved,
              handed, saveFailed>>

valVars == <<vmsg, vres>>

storeVars == <<data, savedLog, qres, lres, metricsOf>>

gatewayVars == <<greq, gstatus, gquery>>

loopStateVars == <<headers, csvRows, rpos, sbatch, rspc, tickReady, metricIngested>>

vars == <<brokerVars, prodVars, collVars, valVars, storeVars, gatewayVars, loopStateVars>>

\* What the steps of one component leave alone.
notBrokerVars == <<prodVars, collVars, valVars, storeVars, gatewayVars, loopStateVars>>
notProducerVars == <<brokerVars, collVars, valVars, storeVars, gatewayVars, loopStateVars>>
notCollectorVars == <<brokerVars, prodVars, valVars, storeVars, gatewayVars, loopStateVars>>
notValVars == <<brokerVars, prodVars, collVars, storeVars, gatewayVars, loopStateVars>>
notStoreVars == <<brokerVars, prodVars, collVars, valVars, gatewayVars, loopStateVars>>
notGatewayVars == <<brokerVars, prodVars, collVars, valVars, storeVars, loopStateVars>>
notStreamerVars == <<brokerVars, collVars, valVars, storeVars, gatewayVars>>

\* ------------------------------------------------------------------ broker

NoResp == [accepted |-> 0, status |-> ""]

\* NewServer(qCap, sBuf), and nothing published or subscribed yet.
NewServer(qCap, sBuf) ==
    /\ queueCap = qCap
    /\ subBuf = sBuf
    /\ inbound = <<>>
    /\ subs = <<>>
    /\ next = 0
    /\ subch = [s \in Subs |-> <<>>]
    /\ sid = [s \in Subs |-> 0]
    /\ now = 0
    /\ metricEnqueued = 0
    /\ metricDelivered = 0
    /\ metricBackpressure = 0
    /\ metricRequeued = 0
    /\ metricSubscribers = 0
    /\ ppc = [c \in Calls |-> "idle"]
    /\ batch = [c \in Calls |-> <<>>]
    /\ pidx = [c \in Calls |-> 0]
    /\ accepted = [c \in Calls |-> 0]
    /\ resp = [c \in Calls |-> NoResp]
    /\ spc = [s \in Subs |-> "idle"]
    /\ hand = [s \in Subs |-> NoRec]
    /\ dpc = "recv"
    /\ dmsg = NoRec
    /\ dsubs = <<>>
    /\ dstart = 0
    /\ di = 0
    /\ delivered = FALSE
    /\ enq = [c \in Calls |-> <<>>]
    /\ attempts = [c \in Calls |-> 0]
    /\ sent = {}
    /\ dropped = {}
    /\ rqPending = {}
    /\ dplaced = {}
    /\ steady = TRUE

BrokerInit == NewServer(QueueCap, SubBuf)

\* `case ch <- v:` of a select with a default arm, on a channel of capacity cap
\* holding q: the send is taken iff the buffer has room.
CanSendOneTooMany(q, cap) == Len(q) <= cap
CanSend(q, cap) == Len(q) < cap

\* The two non-error responses of PublishBatch (broker.go:109 and :112).
BackpressureRespAsOK(acc) == [accepted |-> acc, status |-> "OK"]
BackpressureResp(acc) == [accepted |-> acc, status |-> "BACKPRESSURE"]
OKRespOneMore(acc) == [accepted |-> acc + 1, status |-> "OK"]
OKResp(acc) == [accepted |-> acc, status |-> "OK"]
ErrorResp == [accepted |-> 0, status |-> "ERROR"]

PublishBegun == \E c \in Calls : ppc[c] # "idle"

\* s is on the subscriber list.
OnList(s) == \E i \in DOMAIN subs : subs[i] = s

\* Subscribe calls begun, and those in progress.
SubsBegun == Cardinality({x \in Subs : spc[x] # "idle"})
Live == Cardinality({x \in Subs : spc[x] \notin {"idle", "done"}})

RECURSIVE Submitted(_)
Submitted(c) == IF c = 0 THEN 0 ELSE Len(batch[c]) + Submitted(c - 1)

\* A PublishBatch call arrives. Calls are numbered in order of arrival.
\* req == nil returns the error at once; an empty Items runs no iteration.
PubStart(c) ==
    /\ ppc[c] = "idle"
    /\ IF c = 1 THEN TRUE ELSE ppc[c - 1] # "idle"
    /\ \/ /\ ppc' = [ppc EXCEPT ![c] = "done"]
          /\ resp' = [resp EXCEPT ![c] = ErrorResp]
          /\ UNCHANGED batch
       \/ \E n \in 0..MaxBatch :
             /\ Submitted(NCalls) + n <= MaxRecs
             /\ n > 0 => Submitted(NCalls) + n + SubsBegun <= MaxLoad
             /\ batch' = [batch EXCEPT ![c] = [k \in 1..n |-> Rec(c, k)]]
             /\ IF n = 0
                  THEN /\ ppc' = [ppc EXCEPT ![c] = "done"]
                       /\ resp' = [resp EXCEPT ![c] = OKResp(0)]
                  ELSE /\ ppc' = [ppc EXCEPT ![c] = "loop"]
                       /\ UNCHANGED resp
    /\ UNCHANGED <<pidx, accepted>>
    /\ UNCHANGED <<serverVars, metricVars, subVars, dispVars, obsVars,
                   configVars, notBrokerVars>>

\* One iteration of the loop over req.Items: the select at broker.go:99.
\* The return after the last iteration is taken with that iteration.
PubStepSkipOnFull(c) ==
    /\ ppc[c] = "loop"
    /\ LET item == batch[c][pidx[c] + 1]
           last == pidx[c] + 1 = Len(batch[c])
       IN  /\ attempts' = [attempts EXCEPT ![c] = @ + 1]
           /\ pidx' = [pidx EXCEPT ![c] = @ + 1]
           /\ IF CanSend(inbound, queueCap)
                THEN /\ inbound' = Append(inbound, item)
                     /\ accepted' = [accepted EXCEPT ![c] = @ + 1]
                     /\ metricEnqueued' = metricEnqueued + 1
                     /\ enq' = [enq EXCEPT ![c] = Append(@, item)]
                     /\ UNCHANGED metricBackpressure
                ELSE /\ metricBackpressure' = metricBackpressure + 1
                     /\ UNCHANGED <<inbound, accepted, metricEnqueued, enq>>
           /\ IF last
                THEN /\ ppc' = [ppc EXCEPT ![c] = "done"]
                     /\ resp' = [resp EXCEPT ![c] =
                                   IF accepted'[c] = Len(batch[c])
                                     THEN OKResp(accepted'[c])
                                     ELSE BackpressureResp(accepted'[c])]
                ELSE UNCHANGED <<ppc, resp>>
    /\ UNCHANGED <<subs, next, subch, sid, now, batch>>
    /\ UNCHANGED <<metricDelivered, metricRequeued, metricSubscribers>>
    /\ UNCHANGED <<subVars, dispVars>>
    /\ UNCHANGED <<sent, dropped, rqPending, dplaced, steady>>
    /\ UNCHANGED <<configVars, notBrokerVars>>

PubStep(c) ==
    /\ ppc[c] = "loop"
    /\ LET item == batch[c][pidx[c] + 1]
           last == pidx[c] + 1 = Len(batch[c])
       IN  /\ attempts' = [attempts EXCEPT ![c] = @ + 1]
           /\ IF CanSend(inbound, queueCap)
                THEN /\ inbound' = Append(inbound, item)
                     /\ accepted' = [accepted EXCEPT ![c] = @ + 1]
                     /\ metricEnqueued' = metricEnqueued + 1
                     /\ enq' = [enq EXCEPT ![c] = Append(@, item)]
                     /\ pidx' = [pidx EXCEPT ![c] = @ + 1]
                     /\ IF last
                          THEN /\ ppc' = [ppc EXCEPT ![c] = "done"]
                               /\ resp' = [resp EXCEPT ![c] = OKResp(accepted'[c])]
                          ELSE UNCHANGED <<ppc, resp>>
                     /\ UNCHANGED metricBackpressure
                ELSE /\ metricBackpressure' = metricBackpressure + 1
                     /\ ppc' = [ppc EXCEPT ![c] = "done"]
                     /\ resp' = [resp EXCEPT ![c] = BackpressureResp(accepted[c])]
                     /\ UNCHANGED <<inbound, accepted, metricEnqueued, enq, pidx>>
    /\ UNCHANGED <<subs, next, subch, sid, now, batch>>
    /\ UNCHANGED <<metricDelivered, metricRequeued, metricSubscribers>>
    /\ UNCHANGED <<subVars, dispVars>>
    /\ UNCHANGED <<sent, dropped, rqPending, dplaced, steady>>
    /\ UNCHANGED <<configVars, notBrokerVars>>

\* removeSubscriber keeps the entries whose id differs (broker.go:160-167).
RemoveById(list, id) == SelectSeq(list, LAMBDA x : sid[x] # id)

\* Subscribe, line 116: the id is the clock reading, which is the one the
\* previous Subscribe read or a later one. Calls are numbered in order of arrival.
SubBegin(s) ==
    /\ spc[s] = "idle"
    /\ IF s = 1 THEN TRUE ELSE spc[s - 1] # "idle"
    /\ Live < MaxLive
    /\ Submitted(NCalls) + SubsBegun < MaxLoad
    /\ \E t \in {now, s} :
          /\ t # 0
          /\ now' = t
          /\ sid' = [sid EXCEPT ![s] = t]
    /\ spc' = [spc EXCEPT ![s] = "add"]
    /\ UNCHANGED <<inbound, subs, next, subch, hand>>
    /\ UNCHANGED <<metricVars, pubVars, dispVars, obsVars>>
    /\ UNCHANGED <<configVars, notBrokerVars>>

\* addSubscriber.
SubAdd(s) ==
    /\ spc[s] = "add"
    /\ subs' = Append(subs, s)
    /\ metricSubscribers' = Len(subs')
    /\ spc' = [spc EXCEPT ![s] = "wait"]
    /\ steady' = (steady /\ ~PublishBegun)
    /\ UNCHANGED <<inbound, next, subch, sid, now, hand>>
    /\ UNCHANGED <<metricEnqueued, metricDelivered, metricBackpressure, metricRequeued>>
    /\ UNCHANGED <<pubVars, dispVars>>
    /\ UNCHANGED <<enq, attempts, sent, dropped, rqPending, dplaced>>
    /\ UNCHANGED <<configVars, notBrokerVars>>

\* The select of Subscribe takes `case <-stream.Context().Done()`: return nil,
\* and the deferred removeSubscriber runs.
SubCancel(s) ==
    /\ spc[s] = "wait"
    /\ subs' = RemoveById(subs, sid[s])
    /\ sid' = [sid EXCEPT ![s] = 0]
    /\ metricSubscribers' = Len(subs')
    /\ spc' = [spc EXCEPT ![s] = "done"]
    /\ UNCHANGED <<inbound, next, subch, now, hand>>
    /\ UNCHANGED <<metricEnqueued, metricDelivered, metricBackpressure, metricRequeued>>
    /\ steady' = FALSE
    /\ UNCHANGED <<pubVars, dispVars>>
    /\ UNCHANGED <<enq, attempts, sent, dropped, rqPending, dplaced>>
    /\ UNCHANGED <<configVars, notBrokerVars>>

\* The select of Subscribe takes `case msg := <-sub.ch`.
SubRecv(s) ==
    /\ spc[s] = "wait"
    /\ subch[s] # <<>>
    /\ hand' = [hand EXCEPT ![s] = Head(subch[s])]
    /\ subch' = [subch EXCEPT ![s] = Tail(@)]
    /\ spc' = [spc EXCEPT ![s] = "send"]
    /\ UNCHANGED <<inbound, subs, next, sid, now>>
    /\ UNCHANGED <<metricVars, pubVars, dispVars, obsVars>>
    /\ UNCHANGED <<configVars, notBrokerVars>>

\* stream.Send(msg) returns nil.
SubSendOK(s) ==
    /\ spc[s] = "send"
    /\ metricDelivered' = metricDelivered + 1
    /\ sent' = sent \cup {hand[s]}
    /\ rqPending' = {p \in rqPending : p[1] # hand[s]}
    /\ hand' = [hand EXCEPT ![s] = NoRec]
    /\ spc' = [spc EXCEPT ![s] = "wait"]
    /\ UNCHANGED <<serverVars, pubVars, dispVars>>
    /\ UNCHANGED <<metricEnqueued, metricBackpressure, metricRequeued, metricSubscribers>>
    /\ UNCHANGED <<enq, attempts, dropped, dplaced, steady>>
    /\ UNCHANGED <<configVars, notBrokerVars>>

\* stream.Send(msg) returns an error: removeSubscriber(sub.id), line 135.
SubSendFail(s) ==
    /\ spc[s] = "send"
    /\ subs' = RemoveById(subs, sid[s])
    /\ metricSubscribers' = Len(subs')
    /\ spc' = [spc EXCEPT ![s] = "requeue"]
    /\ UNCHANGED <<inbound, next, subch, sid, now, hand>>
    /\ UNCHANGED <<metricEnqueued, metricDelivered, metricBackpressure, metricRequeued>>
    /\ steady' = FALSE
    /\ UNCHANGED <<pubVars, dispVars>>
    /\ UNCHANGED <<enq, attempts, sent, dropped, rqPending, dplaced>>
    /\ UNCHANGED <<configVars, notBrokerVars>>

\* The select at lines 136-142: put msg back on inbound, or drop it.
SubRequeue(s) ==
    /\ spc[s] = "requeue"
    /\ IF CanSend(inbound, queueCap)
         THEN /\ inbound' = Append(inbound, hand[s])
              /\ metricRequeued' = metricRequeued + 1
              /\ rqPending' = rqPending \cup
                    {<<hand[s], k>> : k \in {x \in Subs : OnList(x) /\ spc[x] \in {"wait", "send"}}}
              /\ UNCHANGED dropped
         ELSE /\ dropped' = dropped \cup {hand[s]}
              /\ UNCHANGED <<inbound, metricRequeued, rqPending>>
    /\ hand' = [hand EXCEPT ![s] = NoRec]
    /\ spc' = [spc EXCEPT ![s] = "ret"]
    /\ UNCHANGED <<subs, next, subch, sid, now>>
    /\ UNCHANGED <<metricEnqueued, metricDelivered, metricBackpressure, metricSubscribers>>
    /\ UNCHANGED <<pubVars, dispVars>>
    /\ UNCHANGED <<enq, attempts, sent, dplaced, steady>>
    /\ UNCHANGED <<configVars, notBrokerVars>>

\* `return err` at line 143: the deferred removeSubscriber runs a second time.
SubReturn(s) ==
    /\ spc[s] = "ret"
    /\ subs' = RemoveById(subs, sid[s])
    /\ sid' = [sid EXCEPT ![s] = 0]
    /\ metricSubscribers' = Len(subs')
    /\ spc' = [spc EXCEPT ![s] = "done"]
    /\ UNCHANGED <<inbound, next, subch, now, hand>>
    /\ UNCHANGED <<metricEnqueued, metricDelivered, metricBackpressure, metricRequeued>>
    /\ steady' = FALSE
    /\ UNCHANGED <<pubVars, dispVars>>
    /\ UNCHANGED <<enq, attempts, sent, dropped, rqPending, dplaced>>
    /\ UNCHANGED <<configVars, notBrokerVars>>

\* DispRecv taking the newest record of inbound instead of the oldest.
DispRecvNewest ==
    /\ dpc = "recv"
    /\ inbound # <<>>
    /\ dmsg' = inbound[Len(inbound)]
    /\ inbound' = SubSeq(inbound, 1, Len(inbound) - 1)
    /\ dpc' = "snap"
    /\ dplaced' = {}
    /\ UNCHANGED <<subs, next, subch, sid, now>>
    /\ UNCHANGED <<dsubs, dstart, di, delivered>>
    /\ UNCHANGED <<metricVars, pubVars, subVars>>
    /\ UNCHANGED <<enq, attempts, sent, dropped, rqPending, steady>>
    /\ UNCHANGED <<configVars, notBrokerVars>>

\* dispatcher: `for msg := range s.inbound`.
DispRecv ==
    /\ dpc = "recv"
    /\ inbound # <<>>
    /\ dmsg' = Head(inbound)
    /\ inbound' = Tail(inbound)
    /\ dpc' = "snap"
    /\ dplaced' = {}
    /\ UNCHANGED <<subs, next, subch, sid, now>>
    /\ UNCHANGED <<dsubs, dstart, di, delivered>>
    /\ UNCHANGED <<metricVars, pubVars, subVars>>
    /\ UNCHANGED <<enq, attempts, sent, dropped, rqPending, steady>>
    /\ UNCHANGED <<configVars, notBrokerVars>>

\* snapshotSubs, and the lines up to the inner loop. With no subscriber the
\* dispatcher sleeps and takes the snapshot again.
DispSnapshot ==
    /\ dpc = "snap"
    /\ dsubs' = subs
    /\ IF Len(subs) = 0
         THEN UNCHANGED <<dpc, dstart, di, delivered>>
         ELSE /\ delivered' = FALSE
              /\ dstart' = next
              /\ di' = 0
              /\ dpc' = "try"
    /\ UNCHANGED dmsg
    /\ UNCHANGED <<serverVars, metricVars, pubVars, subVars, obsVars>>
    /\ UNCHANGED <<configVars, notBrokerVars>>

\* DispTry as a blocking send: the iteration waits until the buffer has room.
DispTryBlocking ==
    /\ dpc = "try"
    /\ CanSend(subch[dsubs[((dstart + di) % Len(dsubs)) + 1]], subBuf)
    /\ LET n == Len(dsubs)
           idx == (dstart + di) % n
           sel == dsubs[idx + 1]
           last == ~(di + 1 < n)
       IN  /\ subch' = [subch EXCEPT ![sel] = Append(@, dmsg)]
           /\ next' = (idx + 1) % n
           /\ dplaced' = dplaced \cup {sel}
           /\ IF ~last
                THEN /\ di' = di + 1
                     /\ delivered' = TRUE
                     /\ UNCHANGED <<dpc, dmsg, dsubs, dstart>>
                ELSE /\ di' = 0
                     /\ delivered' = FALSE
                     /\ dsubs' = <<>>
                     /\ dstart' = 0
                     /\ dpc' = "recv" /\ dmsg' = NoRec
    /\ UNCHANGED <<inbound, subs, sid, now, steady>>
    /\ UNCHANGED <<metricVars, pubVars, subVars>>
    /\ UNCHANGED <<enq, attempts, sent, dropped, rqPending>>
    /\ UNCHANGED <<configVars, notBrokerVars>>

\* One iteration of `for i := 0; i < len(subs); i++` (lines 191-205). The
\* `break` at line 201 leaves the select statement, not the for loop, so the
\* loop goes on to i+1 whether or not the send was taken. After the last
\* iteration: back to the range loop if delivered, else sleep and snapshot
\* again; the locals of the pass go out of scope.
DispTry ==
    /\ dpc = "try"
    /\ LET n == Len(dsubs)
           idx == (dstart + di) % n
           sel == dsubs[idx + 1]
           took == CanSend(subch[sel], subBuf)
           last == ~(di + 1 < n)
       IN  /\ IF took
                THEN /\ subch' = [subch EXCEPT ![sel] = Append(@, dmsg)]
                     /\ next' = (idx + 1) % n
                     /\ dplaced' = dplaced \cup {sel}
                     /\ UNCHANGED steady
                ELSE /\ steady' = FALSE
                     /\ UNCHANGED <<subch, next, dplaced>>
           /\ IF ~last
                THEN /\ di' = di + 1
                     /\ delivered' = (delivered \/ took)
                     /\ UNCHANGED <<dpc, dmsg, dsubs, dstart>>
                ELSE /\ di' = 0
                     /\ delivered' = FALSE
                     /\ dsubs' = <<>>
                     /\ dstart' = 0
                     /\ IF delivered \/ took
                          THEN dpc' = "recv" /\ dmsg' = NoRec
                          ELSE dpc' = "snap" /\ UNCHANGED dmsg
    /\ UNCHANGED <<inbound, subs, sid, now>>
    /\ UNCHANGED <<metricVars, pubVars, subVars>>
    /\ UNCHANGED <<enq, attempts, sent, dropped, rqPending>>
    /\ UNCHANGED <<configVars, notBrokerVars>>

BrokerNext ==
    \/ \E c \in Calls : PubStart(c)
    \/ \E c \in Calls : PubStep(c)
    \/ \E s \in Subs : SubBegin(s)
    \/ \E s \in Subs : SubAdd(s)
    \/ \E s \in Subs : SubCancel(s)
    \/ \E s \in Subs : SubRecv(s)
    \/ \E s \in Subs : SubSendOK(s)
    \/ \E s \in Subs : SubSendFail(s)
    \/ \E s \in Subs : SubRequeue(s)
    \/ \E s \in Subs : SubReturn(s)
    \/ DispRecv
    \/ DispSnapshot
    \/ DispTry

\* One publisher: a PublishBatch call begins after the call before it has returned.
SeqPubStart(c) ==
    /\ IF c = 1 THEN TRUE ELSE ppc[c - 1] = "done"
    /\ PubStart(c)

\* One publisher and two subscribers that stay registered and whose sends succeed.
OrderNext ==
    \/ \E c \in Calls : SeqPubStart(c)
    \/ \E c \in Calls : PubStep(c)
    \/ \E s \in 1..2 : SubBegin(s)
    \/ \E s \in 1..2 : SubAdd(s)
    \/ \E s \in 1..2 : SubRecv(s)
    \/ \E s \in 1..2 : SubSendOK(s)
    \/ DispRecv
    \/ DispSnapshot
    \/ DispTry

\* The steps of the dispatcher goroutine.
DispatcherStep ==
    \/ DispRecv
    \/ DispSnapshot
    \/ DispTry

\* The steps of a Subscribe call whose client keeps reading its stream.
DrainStep(s) ==
    \/ SubRecv(s)
    \/ SubSendOK(s)

\* Subscriber 1 is slow: its Subscribe call takes a record from its buffer
\* and stream.Send does not return. Subscriber 2 drains. Nobody leaves.
SlowNext ==
    \/ \E c \in Calls : PubStart(c)
    \/ \E c \in Calls : PubStep(c)
    \/ \E s \in 1..2 : SubBegin(s)
    \/ \E s \in 1..2 : SubAdd(s)
    \/ SubRecv(1)
    \/ DrainStep(2)
    \/ DispatcherStep

\* ------------------------------------------------------------------ producer

\* runStreamer: backoff := 100 * time.Millisecond; const backoffMax = 5 * time.Second.
InitialBackoff == 100
BackoffMax == 5000

ProducerInit ==
    /\ rootDone = FALSE
    /\ backoff = InitialBackoff
    /\ drpc = "idle"
    /\ drainCtx = "root"
    /\ remaining = <<>>
    /\ metricErrors = 0
    /\ metricPublished = 0
    /\ metricStreamerBackpressure = 0
    /\ drains = 0
    /\ dbatch = <<>>
    /\ fcCalls = 0
    /\ acked = 0
    /\ lastResp = NoResp
    /\ waited = 0
    /\ rsReturned = FALSE

\* ctx.Done() is ready / ctx.Err() != nil for the ctx the drain was given.
CtxDone == drainCtx = "root" /\ rootDone

\* remaining = remaining[acc:] when acc > 0 (lines 882-887).
AdvanceOneShort(rem, acc) == IF acc > 1 THEN SubSeq(rem, acc, Len(rem)) ELSE rem
Advance(rem, acc) == IF acc > 0 THEN SubSeq(rem, acc + 1, Len(rem)) ELSE rem

\* `if *backoff < backoffMax { *backoff *= 2 }`.
NextBackoff(b) == IF b < BackoffMax THEN b * 2 ELSE b

\* A counter is followed up to MaxPubCalls; at MaxPubCalls it stands for
\* "MaxPubCalls or more" (metricErrors.Inc(), metricBackpressure.Inc(), f.calls++).
Inc(x) == IF x < MaxPubCalls THEN x + 1 ELSE x

\* The signal handler cancels the root context.
RootCancel ==
    /\ ~rootDone
    /\ rootDone' = TRUE
    /\ UNCHANGED <<backoff, drpc, drainCtx, remaining, metricErrors, metricPublished,
                   metricStreamerBackpressure, drains, dbatch, fcCalls, acked, lastResp,
                   waited, rsReturned>>
    /\ UNCHANGED notProducerVars

\* runStreamer calls drainRemaining with a non-empty batch: with ctx on a size
\* or timer flush, with context.Background() in the ctx.Done() arm, which
\* returns after its drain.
DrainBegin ==
    /\ drpc = "idle"
    /\ ~rsReturned
    /\ drainCtx # "background"
    /\ drains < MaxDrains
    /\ \E n \in 1..MaxDrain :
          /\ remaining' = [k \in 1..n |-> k]
          /\ dbatch' = [k \in 1..n |-> k]
    /\ \E c \in {"root", "background"} :
          /\ c = "background" => rootDone
          /\ drainCtx' = c
    /\ drains' = drains + 1
    /\ drpc' = "check"
    /\ fcCalls' = 0
    /\ acked' = 0
    /\ lastResp' = NoResp
    /\ waited' = 0
    /\ UNCHANGED <<rootDone, backoff, metricErrors, metricPublished,
                   metricStreamerBackpressure, rsReturned>>
    /\ UNCHANGED notProducerVars

\* Loop head: `for len(remaining) > 0` and the non-blocking ctx.Done() check.
DrainCheck ==
    /\ drpc = "check"
    /\ drpc' = IF remaining = <<>> \/ CtxDone THEN "idle" ELSE "call"
    /\ UNCHANGED <<rootDone, backoff, drainCtx, remaining, metricErrors, metricPublished,
                   metricStreamerBackpressure, drains, dbatch, fcCalls, acked, lastResp,
                   waited, rsReturned>>
    /\ UNCHANGED notProducerVars

\* publishBatch(ctx, client, remaining) fails with a transport error.
DrainPublishErrorDropsHead ==
    /\ drpc = "call"
    /\ fcCalls' = Inc(fcCalls)
    /\ lastResp' = ErrorResp
    /\ metricErrors' = Inc(metricErrors)
    /\ remaining' = Tail(remaining)
    /\ drpc' = IF CtxDone THEN "idle" ELSE "sleep"
    /\ UNCHANGED <<rootDone, backoff, drainCtx, metricPublished,
                   metricStreamerBackpressure, drains, dbatch, acked, waited, rsReturned>>
    /\ UNCHANGED notProducerVars

DrainPublishError ==
    /\ drpc = "call"
    /\ fcCalls' = Inc(fcCalls)
    /\ lastResp' = ErrorResp
    /\ metricErrors' = Inc(metricErrors)
    /\ drpc' = IF CtxDone THEN "idle" ELSE "sleep"
    /\ UNCHANGED <<rootDone, backoff, drainCtx, remaining, metricPublished,
                   metricStreamerBackpressure, drains, dbatch, acked, waited, rsReturned>>
    /\ UNCHANGED notProducerVars

\* publishBatch returns (acc, true, nil): the broker took the first acc items
\* and answered BACKPRESSURE, which it does with acc < len(batch).
DrainPublishBackpressure ==
    /\ drpc = "call"
    /\ \E acc \in 0..(Len(remaining) - 1) :
          /\ lastResp' = BackpressureResp(acc)
          /\ metricPublished' = metricPublished + acc
          /\ acked' = acked + acc
          /\ remaining' = Advance(remaining, acc)
    /\ fcCalls' = Inc(fcCalls)
    /\ metricStreamerBackpressure' = Inc(metricStreamerBackpressure)
    /\ drpc' = "sleep"
    /\ UNCHANGED <<rootDone, backoff, drainCtx, metricErrors, drains, dbatch, waited,
                   rsReturned>>
    /\ UNCHANGED notProducerVars

\* DrainPublishOK without the reset of *backoff.
DrainPublishOKKeepsBackoff ==
    /\ drpc = "call"
    /\ lastResp' = OKResp(Len(remaining))
    /\ metricPublished' = metricPublished + Len(remaining)
    /\ fcCalls' = Inc(fcCalls)
    /\ remaining' = <<>>
    /\ drpc' = "check"
    /\ UNCHANGED <<rootDone, backoff, drainCtx, metricErrors, metricStreamerBackpressure,
                   drains, dbatch, acked, waited, rsReturned>>
    /\ UNCHANGED notProducerVars

\* publishBatch returns (acc, false, nil): status OK, everything accepted.
DrainPublishOK ==
    /\ drpc = "call"
    /\ lastResp' = OKResp(Len(remaining))
    /\ metricPublished' = metricPublished + Len(remaining)
    /\ fcCalls' = Inc(fcCalls)
    /\ remaining' = <<>>
    /\ backoff' = InitialBackoff
    /\ drpc' = "check"
    /\ UNCHANGED <<rootDone, drainCtx, metricErrors, metricStreamerBackpressure, drains,
                   dbatch, acked, waited, rsReturned>>
    /\ UNCHANGED notProducerVars

\* The select on ctx.Done() and time.After(*backoff), then the doubling.
DrainSleep ==
    /\ drpc = "sleep"
    /\ \/ /\ CtxDone
          /\ drpc' = "idle"
          /\ UNCHANGED <<backoff, waited>>
       \/ /\ waited' = backoff
          /\ backoff' = NextBackoff(backoff)
          /\ drpc' = "check"
    /\ UNCHANGED <<rootDone, drainCtx, remaining, metricErrors, metricPublished,
                   metricStreamerBackpressure, drains, dbatch, fcCalls, acked, lastResp,
                   rsReturned>>
    /\ UNCHANGED notProducerVars

\* runStreamer's select takes `case <-ctx.Done()` with no drain to run (the
\* batch is empty, or the drain of this arm has ended): `return nil`.
StreamerReturn ==
    /\ drpc = "idle"
    /\ rootDone
    /\ ~rsReturned
    /\ rsReturned' = TRUE
    /\ UNCHANGED <<rootDone, backoff, drpc, drainCtx, remaining, metricErrors,
                   metricPublished, metricStreamerBackpressure, drains, dbatch, fcCalls,
                   acked, lastResp, waited>>
    /\ UNCHANGED notProducerVars

\* The steps of runStreamer and of the broker answering it.
StreamerStep ==
    \/ DrainCheck
    \/ DrainPublishError
    \/ DrainPublishBackpressure
    \/ DrainPublishOK
    \/ DrainSleep
    \/ StreamerReturn

ProducerNext ==
    \/ RootCancel
    \/ DrainBegin
    \/ StreamerStep

\* ------------------------------------------------------------------ collector

\* Rows read by the producer in one run, columns of a row, characters of a cell.
StreamerBatchSize == 2
MaxRows == 4
MaxCols == 2
MaxCellLen == 2

\* A TelemetryData message as validate sees it: the nil pointer, or a message
\* with its gpu_id (a string, here a sequence of characters) and whether Ts is set.
Whitespace == {"sp", "tab"}
Chars == Whitespace \cup {"g"}
Strs == UNION {[1..n -> Chars] : n \in 0..MaxGpuLen}
NilMsg == [nil |-> TRUE, gpu |-> <<>>, ts |-> FALSE]
AllMsgs == {NilMsg} \cup [nil : {FALSE}, gpu : Strs, ts : BOOLEAN]

\* m.GetGpuId(): "" for the nil message.
GetGpuId(m) == IF m.nil THEN <<>> ELSE m.gpu

\* strings.TrimSpace: leading and trailing white space removed.
RECURSIVE TrimLeft(_)
TrimLeft(s) ==
    IF s # <<>> /\ Head(s) \in Whitespace THEN TrimLeft(Tail(s)) ELSE s

RECURSIVE TrimRight(_)
TrimRight(s) ==
    IF s # <<>> /\ s[Len(s)] \in Whitespace
    THEN TrimRight(SubSeq(s, 1, Len(s) - 1))
    ELSE s

NoTrim(s) == s
stringsTrim(s) == TrimRight(TrimLeft(s))

validateIgnoresTs(m) ==
    IF m.nil THEN FALSE
    ELSE IF stringsTrim(GetGpuId(m)) = <<>> THEN FALSE
    ELSE TRUE
validate(m) ==
    IF m.nil THEN FALSE
    ELSE IF stringsTrim(GetGpuId(m)) = <<>> THEN FALSE
    ELSE IF ~m.ts THEN FALSE
    ELSE TRUE

\* The messages the broker sends in the collector runs: a valid one, one with
\* a white-space gpu_id, one without timestamp.
StreamMsgs ==
    {[nil |-> FALSE, gpu |-> <<"g">>, ts |-> TRUE],
     [nil |-> FALSE, gpu |-> <<"sp">>, ts |-> TRUE],
     [nil |-> FALSE, gpu |-> <<"g">>, ts |-> FALSE]}

Workers == 1..NWorkers
RecIds == 1..MaxMsgs

ValInit ==
    /\ vmsg = NilMsg
    /\ vres = "none"

CollectorInit ==
    /\ collDone = FALSE
    /\ stream = <<>>
    /\ streamEnded = FALSE
    /\ tickPending = FALSE
    /\ lpc = "select"
    /\ closing = FALSE
    /\ cbatch = <<>>
    /\ cjob = <<>>
    /\ jobs = <<>>
    /\ jobsClosed = FALSE
    /\ wpc = [w \in Workers |-> "idle"]
    /\ wjob = [w \in Workers |-> <<>>]
    /\ wtaken = [w \in Workers |-> <<>>]
    /\ timedOut = FALSE
    /\ recvErr = "nil"
    /\ cret = "running"
    /\ metricReceived = 0
    /\ metricBatched = 0
    /\ metricFlushed = 0
    /\ metricDroppedInvalid = 0
    /\ metricFlushErrors = 0
    /\ arrived = <<>>
    /\ saved = [r \in RecIds |-> 0]
    /\ handed = [r \in RecIds |-> 0]
    /\ saveFailed = FALSE

loopVars == <<lpc, closing, cbatch, cjob, recvErr, cret>>
workerVars == <<wpc, wjob, wtaken, metricFlushed, metricFlushErrors, saved, saveFailed>>
recvVars == <<metricReceived, metricBatched, metricDroppedInvalid>>

\* The broker sends a message on the stream.
Deliver ==
    /\ ~streamEnded
    /\ lpc # "done"
    /\ Len(arrived) < MaxMsgs
    /\ \E m \in StreamMsgs : arrived' = Append(arrived, m)
    /\ stream' = Append(stream, Len(arrived) + 1)
    /\ UNCHANGED <<collDone, streamEnded, tickPending, jobs, jobsClosed, timedOut, handed,
                   loopVars, workerVars, recvVars>>
    /\ UNCHANGED notCollectorVars

\* The broker ends the stream.
EndStream ==
    /\ ~streamEnded
    /\ lpc # "done"
    /\ streamEnded' = TRUE
    /\ UNCHANGED <<collDone, stream, tickPending, jobs, jobsClosed, timedOut, arrived,
                   handed, loopVars, workerVars, recvVars>>
    /\ UNCHANGED notCollectorVars

\* main's signal handler cancels ctx.
CollCancel ==
    /\ ~collDone
    /\ lpc # "done"
    /\ collDone' = TRUE
    /\ UNCHANGED <<stream, streamEnded, tickPending, jobs, jobsClosed, timedOut, arrived,
                   handed, loopVars, workerVars, recvVars>>
    /\ UNCHANGED notCollectorVars

\* The flush_ms ticker fires (ticker.C holds one tick).
Tick ==
    /\ ~tickPending
    /\ lpc \notin {"wait", "done"}
    /\ tickPending' = TRUE
    /\ UNCHANGED <<collDone, stream, streamEnded, jobs, jobsClosed, timedOut, arrived,
                   handed, loopVars, workerVars, recvVars>>
    /\ UNCHANGED notCollectorVars

\* `if len(batch) >= batchSize`.
SizeExceeded(b) == Len(b) > BatchSize
SizeReached(b) == Len(b) >= BatchSize

\* flush() up to its send on jobs, for the batch b: an empty batch returns at
\* once, otherwise the copy is made and the batch cleared. final: close(jobs)
\* follows the flush.
FlushBegin(b, final) ==
    /\ cbatch' = <<>>
    /\ IF b = <<>>
       THEN /\ cjob' = <<>>
            /\ closing' = FALSE
            /\ jobsClosed' = final
            /\ lpc' = IF final THEN "wait" ELSE "select"
       ELSE /\ cjob' = b
            /\ closing' = final
            /\ jobsClosed' = FALSE
            /\ lpc' = "send"

\* select: case <-ctx.Done(): flush, close(jobs), then wait for the workers.
CollShutdown ==
    /\ lpc = "select"
    /\ collDone
    /\ FlushBegin(cbatch, TRUE)
    /\ UNCHANGED <<collDone, stream, streamEnded, tickPending, jobs, timedOut, arrived,
                   handed, workerVars, recvVars>>
    /\ UNCHANGED <<recvErr, cret>>
    /\ UNCHANGED notCollectorVars

\* select: case <-ticker.C: flush.
CollTimerFlush ==
    /\ lpc = "select"
    /\ tickPending
    /\ tickPending' = FALSE
    /\ FlushBegin(cbatch, FALSE)
    /\ UNCHANGED <<collDone, stream, streamEnded, jobs, timedOut, arrived, handed,
                   workerVars, recvVars>>
    /\ UNCHANGED <<recvErr, cret>>
    /\ UNCHANGED notCollectorVars

\* select: default, taken when no case is ready: the loop calls stream.Recv().
CollDefault ==
    /\ lpc = "select"
    /\ ~collDone
    /\ ~tickPending
    /\ lpc' = "recv"
    /\ UNCHANGED <<collDone, stream, streamEnded, tickPending, closing, cbatch, cjob, jobs,
                   jobsClosed, timedOut, arrived, handed, workerVars, recvVars>>
    /\ UNCHANGED <<recvErr, cret>>
    /\ UNCHANGED notCollectorVars

\* Recv returns a message: count, validate, append, flush on size.
CollRecvMsg ==
    /\ lpc = "recv"
    /\ stream # <<>>
    /\ stream' = Tail(stream)
    /\ metricReceived' = metricReceived + 1
    /\ IF ~validate(arrived[Head(stream)])
       THEN /\ metricDroppedInvalid' = metricDroppedInvalid + 1
            /\ lpc' = "select"
            /\ UNCHANGED <<metricBatched, closing, cbatch, cjob, jobsClosed>>
       ELSE /\ metricBatched' = metricBatched + 1
            /\ UNCHANGED metricDroppedInvalid
            /\ IF SizeReached(Append(cbatch, Head(stream)))
               THEN FlushBegin(Append(cbatch, Head(stream)), FALSE)
               ELSE /\ cbatch' = Append(cbatch, Head(stream))
                    /\ lpc' = "select"
                    /\ UNCHANGED <<closing, cjob, jobsClosed>>
    /\ UNCHANGED <<collDone, streamEnded, tickPending, jobs, timedOut, arrived, handed,
                   workerVars>>
    /\ UNCHANGED <<recvErr, cret>>
    /\ UNCHANGED notCollectorVars

\* The errors stream.Recv() can return now: io.EOF once the broker has ended
\* the stream and every message was received, the cancellation of ctx.
RecvErrors ==
    (IF stream = <<>> /\ streamEnded THEN {"EOF"} ELSE {})
        \cup (IF collDone THEN {"canceled"} ELSE {})

\* fmt.Errorf("recv: %w", err).
Errorf(e) == "recv: " \o e

\* CollRecvErr without the final flush.
CollRecvErrNoFlush ==
    /\ lpc = "recv"
    /\ RecvErrors # {}
    /\ jobsClosed' = TRUE
    /\ lpc' = "wait"
    /\ UNCHANGED <<collDone, stream, streamEnded, tickPending, jobs, timedOut, arrived,
                   handed, closing, cbatch, cjob, workerVars, recvVars>>
    /\ UNCHANGED <<recvErr, cret>>
    /\ UNCHANGED notCollectorVars

\* Recv returns an error (the stream has ended, or its context is cancelled):
\* flush, close(jobs), then wait for the workers.
CollRecvErr ==
    /\ lpc = "recv"
    /\ \E e \in RecvErrors : recvErr' = e
    /\ FlushBegin(cbatch, TRUE)
    /\ UNCHANGED cret
    /\ UNCHANGED <<collDone, stream, streamEnded, tickPending, jobs, timedOut, arrived,
                   handed, workerVars, recvVars>>
    /\ UNCHANGED notCollectorVars

\* CollSend with a send that gives up when jobs is full.
CollSendOrDrop ==
    /\ lpc = "send"
    /\ jobs' = IF CanSend(jobs, JobsCap) THEN Append(jobs, cjob) ELSE jobs
    /\ handed' = [r \in RecIds |->
                    IF CanSend(jobs, JobsCap) /\ r \in Range(cjob)
                    THEN handed[r] + 1 ELSE handed[r]]
    /\ cjob' = <<>>
    /\ jobsClosed' = closing
    /\ closing' = FALSE
    /\ lpc' = IF closing THEN "wait" ELSE "select"
    /\ UNCHANGED <<collDone, stream, streamEnded, tickPending, cbatch, timedOut, arrived,
                   workerVars, recvVars>>
    /\ UNCHANGED <<recvErr, cret>>
    /\ UNCHANGED notCollectorVars

\* flush's send on jobs, which waits for room; after the final flush, close(jobs).
CollSend ==
    /\ lpc = "send"
    /\ CanSend(jobs, JobsCap)
    /\ jobs' = Append(jobs, cjob)
    /\ handed' = [r \in RecIds |-> IF r \in Range(cjob) THEN handed[r] + 1 ELSE handed[r]]
    /\ cjob' = <<>>
    /\ jobsClosed' = closing
    /\ closing' = FALSE
    /\ lpc' = IF closing THEN "wait" ELSE "select"
    /\ UNCHANGED <<collDone, stream, streamEnded, tickPending, cbatch, timedOut, arrived,
                   workerVars, recvVars>>
    /\ UNCHANGED <<recvErr, cret>>
    /\ UNCHANGED notCollectorVars

\* CollReturn with `return nil` in both arms.
CollReturnNil ==
    /\ lpc = "wait"
    /\ \A w \in Workers : wpc[w] = "exit"
    /\ lpc' = "done"
    /\ cret' = "nil"
    /\ UNCHANGED <<collDone, stream, streamEnded, tickPending, closing, cbatch, cjob, jobs,
                   jobsClosed, timedOut, recvErr, arrived, handed, workerVars, recvVars>>
    /\ UNCHANGED notCollectorVars

\* wg.Wait() has returned: every worker has left its loop. The ctx.Done() arm
\* returns nil, the arm of the failed Recv returns the wrapped error.
CollReturn ==
    /\ lpc = "wait"
    /\ \A w \in Workers : wpc[w] = "exit"
    /\ lpc' = "done"
    /\ cret' = IF recvErr = "nil" THEN "nil" ELSE Errorf(recvErr)
    /\ UNCHANGED <<collDone, stream, streamEnded, tickPending, closing, cbatch, cjob, jobs,
                   jobsClosed, timedOut, recvErr, arrived, handed, workerVars, recvVars>>
    /\ UNCHANGED notCollectorVars

\* time.After(shutdown_timeout_ms) fires first.
CollTimeout ==
    /\ lpc = "wait"
    /\ lpc' = "done"
    /\ timedOut' = TRUE
    /\ cret' = IF recvErr = "nil" THEN "nil" ELSE Errorf(recvErr)
    /\ UNCHANGED <<collDone, stream, streamEnded, tickPending, closing, cbatch, cjob, jobs,
                   jobsClosed, recvErr, arrived, handed, workerVars, recvVars>>
    /\ UNCHANGED notCollectorVars

\* Worker: `for j := range jobs` receives a job.
WorkerTake(w) ==
    /\ wpc[w] = "idle"
    /\ jobs # <<>>
    /\ wjob' = [wjob EXCEPT ![w] = Head(jobs)]
    /\ wtaken' = [wtaken EXCEPT ![w] = Head(jobs)]
    /\ jobs' = Tail(jobs)
    /\ wpc' = [wpc EXCEPT ![w] = "save"]
    /\ UNCHANGED <<collDone, stream, streamEnded, tickPending, jobsClosed, timedOut,
                   arrived, handed, loopVars, recvVars, metricFlushed, metricFlushErrors,
                   saved, saveFailed>>
    /\ UNCHANGED notCollectorVars

\* WorkerExit where the range loop ends at the close, jobs queued or not.
WorkerExitOnClose(w) ==
    /\ wpc[w] = "idle"
    /\ jobsClosed
    /\ wpc' = [wpc EXCEPT ![w] = "exit"]
    /\ UNCHANGED <<collDone, stream, streamEnded, tickPending, jobs, jobsClosed, timedOut,
                   arrived, handed, loopVars, recvVars, wjob, wtaken, metricFlushed,
                   metricFlushErrors, saved, saveFailed>>
    /\ UNCHANGED notCollectorVars

\* Worker: jobs is closed and empty, the range loop ends and wg.Done() runs.
WorkerExit(w) ==
    /\ wpc[w] = "idle"
    /\ jobs = <<>>
    /\ jobsClosed
    /\ wpc' = [wpc EXCEPT ![w] = "exit"]
    /\ UNCHANGED <<collDone, stream, streamEnded, tickPending, jobs, jobsClosed, timedOut,
                   arrived, handed, loopVars, recvVars, wjob, wtaken, metricFlushed,
                   metricFlushErrors, saved, saveFailed>>
    /\ UNCHANGED notCollectorVars

\* WorkerSave where a failed SaveTelemetry ends the job.
WorkerSaveAbortsOnError(w) ==
    /\ wpc[w] = "save"
    /\ \E ok \in BOOLEAN :
          IF ok
          THEN /\ saved' = [saved EXCEPT ![Head(wjob[w])] = @ + 1]
               /\ metricFlushed' = metricFlushed + 1
               /\ wjob' = [wjob EXCEPT ![w] = Tail(@)]
               /\ UNCHANGED <<metricFlushErrors, saveFailed>>
          ELSE /\ metricFlushErrors' = metricFlushErrors + 1
               /\ saveFailed' = TRUE
               /\ wjob' = [wjob EXCEPT ![w] = <<>>]
               /\ UNCHANGED <<saved, metricFlushed>>
    /\ wpc' = [wpc EXCEPT ![w] = IF wjob'[w] = <<>> THEN "idle" ELSE "save"]
    /\ wtaken' = [wtaken EXCEPT ![w] = IF wjob'[w] = <<>> THEN <<>> ELSE @]
    /\ UNCHANGED <<collDone, stream, streamEnded, tickPending, jobs, jobsClosed, timedOut,
                   arrived, handed, loopVars, recvVars>>
    /\ UNCHANGED notCollectorVars

\* Worker: store.SaveTelemetry(it) for the next item of the job, which
\* succeeds (ok) or returns an error; the job goes on either way.
WorkerSave(w) ==
    /\ wpc[w] = "save"
    /\ \E ok \in BOOLEAN :
          IF ok
          THEN /\ saved' = [saved EXCEPT ![Head(wjob[w])] = @ + 1]
               /\ metricFlushed' = metricFlushed + 1
               /\ UNCHANGED <<metricFlushErrors, saveFailed>>
          ELSE /\ metricFlushErrors' = metricFlushErrors + 1
               /\ saveFailed' = TRUE
               /\ UNCHANGED <<saved, metricFlushed>>
    /\ wjob' = [wjob EXCEPT ![w] = Tail(@)]
    /\ wpc' = [wpc EXCEPT ![w] = IF Tail(wjob[w]) = <<>> THEN "idle" ELSE "save"]
    /\ wtaken' = [wtaken EXCEPT ![w] = IF Tail(wjob[w]) = <<>> THEN <<>> ELSE @]
    /\ UNCHANGED <<collDone, stream, streamEnded, tickPending, jobs, jobsClosed, timedOut,
                   arrived, handed, loopVars, recvVars>>
    /\ UNCHANGED notCollectorVars

\* The steps of runCollectorLoop and of its workers.
CollectorStep ==
    \/ CollShutdown
    \/ CollTimerFlush
    \/ CollDefault
    \/ CollRecvMsg
    \/ CollRecvErr
    \/ CollSend
    \/ CollReturn
    \/ \E w \in Workers : WorkerTake(w)
    \/ \E w \in Workers : WorkerExit(w)
    \/ \E w \in Workers : WorkerSave(w)

\* The steps of the loop itself.
LoopStep ==
    \/ CollShutdown
    \/ CollTimerFlush
    \/ CollDefault
    \/ CollRecvMsg
    \/ CollRecvErr
    \/ CollSend
    \/ CollReturn

CollectorNext ==
    \/ Deliver
    \/ EndStream
    \/ CollCancel
    \/ Tick
    \/ CollTimeout
    \/ CollectorStep

\* validate(m) is called.
ValidateCall ==
    /\ vres = "none"
    /\ vres' = IF validate(vmsg) THEN "true" ELSE "false"
    /\ UNCHANGED vmsg
    /\ UNCHANGED notValVars

\* ------------------------------------------------------------------ in-memory store

Gpus == 1..NGpu
Times == 1..MaxTime
\* A nil *time.Time.
NoTime == 0

\* The gpu id "", and the keys m.data can have.
EmptyGpuId == 0
KeyIds == Gpus \cup {EmptyGpuId}

NoQuery ==
    [done |-> FALSE, impl |-> "memory", gpu |-> 0, start |-> NoTime, end |-> NoTime,
     out |-> <<>>, err |-> "nil", at |-> 0]
NoList == [done |-> FALSE, out |-> <<>>, at |-> 0]

StoreInit ==
    /\ data = [g \in KeyIds |-> <<>>]
    /\ savedLog = <<>>
    /\ qres = NoQuery
    /\ lres = NoList
    /\ metricsOf = [i \in 1..MaxSaves |-> "none"]

\* time.Time.Before and After.
Before(a, b) == a < b
After(a, b) == a > b

\* An insert that puts x in the place of a record with x's timestamp.
RECURSIVE InsertReplacingEqual(_, _)
InsertReplacingEqual(s, x) ==
    IF s = <<>> THEN <<x>>
    ELSE IF s[Len(s)].ts = x.ts
         THEN Append(SubSeq(s, 1, Len(s) - 1), x)
    ELSE IF Before(x.ts, s[Len(s)].ts)
         THEN Append(InsertReplacingEqual(SubSeq(s, 1, Len(s) - 1), x), s[Len(s)])
         ELSE Append(s, x)

\* sort.SliceStable(s, less) with less(i, j) = s[i].Timestamp.Before(s[j].Timestamp):
\* x goes behind every element that is not after it.
RECURSIVE InsertStable(_, _)
InsertStable(s, x) ==
    IF s = <<>> THEN <<x>>
    ELSE IF Before(x.ts, s[Len(s)].ts)
         THEN Append(InsertStable(SubSeq(s, 1, Len(s) - 1), x), s[Len(s)])
         ELSE Append(s, x)

SortAsAppended(s) == s
RECURSIVE SliceStable(_)
SliceStable(s) ==
    IF s = <<>> THEN <<>>
    ELSE InsertStable(SliceStable(SubSeq(s, 1, Len(s) - 1)), s[Len(s)])

\* SaveTelemetry(t): append to the gpu's slice, sort it, store it back. The
\* struct t is copied into the slice; its Metrics field refers to the map
\* the caller built.
SaveTelemetry(g, ts) ==
    /\ data' = [data EXCEPT ![g] =
                   SliceStable(Append(@, [ts |-> ts, id |-> Len(savedLog) + 1]))]
    /\ savedLog' = Append(savedLog, [gpu |-> g, ts |-> ts])
    /\ metricsOf' = [metricsOf EXCEPT ![Len(savedLog) + 1] = "saved"]
    /\ UNCHANGED <<qres, lres>>
    /\ UNCHANGED notStoreVars

\* A SaveTelemetry call for a record with a gpu id.
StoreSave ==
    /\ Len(savedLog) < MaxSaves
    /\ \E g \in Gpus, ts \in Times : SaveTelemetry(g, ts)

\* A SaveTelemetry call in the runs with few saves.
SaveBesideCaller == Len(savedLog) < MaxCallerSaves /\ StoreSave

\* A SaveTelemetry call for a record whose GPUId is "".
StoreSaveEmptyId ==
    /\ Len(savedLog) < MaxCallerSaves
    /\ \E ts \in Times : SaveTelemetry(EmptyGpuId, ts)

\* The window test of QueryTelemetry's loop.
SkippedOpenWindow(it, start, end) ==
    \/ start # NoTime /\ ~After(it.ts, start)
    \/ end # NoTime /\ ~Before(it.ts, end)
Skipped(it, start, end) ==
    \/ start # NoTime /\ Before(it.ts, start)
    \/ end # NoTime /\ After(it.ts, end)

\* QueryTelemetry(gpuID, start, end) on the slice s of the gpu.
QueryTelemetry(s, start, end) ==
    IF start = NoTime /\ end = NoTime
    THEN s
    ELSE SelectSeq(s, LAMBDA it : ~Skipped(it, start, end))

StoreQuery ==
    /\ \E g \in Gpus, start \in Times \cup {NoTime}, end \in Times \cup {NoTime} :
          qres' = [done |-> TRUE, impl |-> "memory", gpu |-> g, start |-> start,
                   end |-> end, out |-> QueryTelemetry(data[g], start, end),
                   err |-> "nil", at |-> Len(savedLog)]
    /\ UNCHANGED <<data, savedLog, lres, metricsOf>>
    /\ UNCHANGED notStoreVars

\* MemoryStore.QueryTelemetry("", start, end): the slice m.data[""], windowed,
\* and a nil error.
StoreQueryEmptyId ==
    /\ \E start \in Times \cup {NoTime}, end \in Times \cup {NoTime} :
          qres' = [done |-> TRUE, impl |-> "memory", gpu |-> EmptyGpuId, start |-> start,
                   end |-> end, out |-> QueryTelemetry(data[EmptyGpuId], start, end),
                   err |-> "nil", at |-> Len(savedLog)]
    /\ UNCHANGED <<data, savedLog, lres, metricsOf>>
    /\ UNCHANGED notStoreVars

\* SQLiteStore.QueryTelemetry("", start, end) on a table with no row for "":
\* the SELECT runs with gpu_id = ""; it fails with the database's error, or
\* returns no row and a nil error.
SQLiteQueryEmptyId ==
    /\ \E start \in Times \cup {NoTime}, end \in Times \cup {NoTime}, dbErr \in BOOLEAN :
          qres' = [done |-> TRUE, impl |-> "sqlite", gpu |-> EmptyGpuId, start |-> start,
                   end |-> end, out |-> <<>>,
                   err |-> IF dbErr THEN "query telemetry" ELSE "nil", at |-> Len(savedLog)]
    /\ UNCHANGED <<data, savedLog, lres, metricsOf>>
    /\ UNCHANGED notStoreVars

\* InfluxStore.QueryTelemetry("", start, end): `if gpuID == ""` returns
\* (nil, "gpuID required") before any query is built.
InfluxQueryEmptyId ==
    /\ \E start \in Times \cup {NoTime}, end \in Times \cup {NoTime} :
          qres' = [done |-> TRUE, impl |-> "influx", gpu |-> EmptyGpuId, start |-> start,
                   end |-> end, out |-> <<>>, err |-> "gpuID required",
                   at |-> Len(savedLog)]
    /\ UNCHANGED <<data, savedLog, lres, metricsOf>>
    /\ UNCHANGED notStoreVars

\* The three stores asked for the gpu id "", the in-memory one with saves.
EmptyIdNext ==
    \/ SaveBesideCaller
    \/ StoreSaveEmptyId
    \/ StoreQueryEmptyId
    \/ SQLiteQueryEmptyId
    \/ InfluxQueryEmptyId

\* sort.Strings on a set of ids.
RECURSIVE SortDescending(_)
SortDescending(S) ==
    IF S = {} THEN <<>>
    ELSE LET m == CHOOSE x \in S : \A y \in S : x >= y
         IN  <<m>> \o SortDescending(S \ {m})
RECURSIVE SortStrings(_)
SortStrings(S) ==
    IF S = {} THEN <<>>
    ELSE LET m == CHOOSE x \in S : \A y \in S : x <= y
         IN  <<m>> \o SortStrings(S \ {m})

\* ListGPUs(): the keys of m.data, sorted.
ListGPUs(d) == SortStrings({g \in DOMAIN d : d[g] # <<>>})

StoreList ==
    /\ lres' = [done |-> TRUE, out |-> ListGPUs(data), at |-> Len(savedLog)]
    /\ UNCHANGED <<data, savedLog, qres, metricsOf>>
    /\ UNCHANGED notStoreVars

StoreNext ==
    \/ StoreSave
    \/ StoreQuery
    \/ StoreList

\* The caller of QueryTelemetry assigns to an element of the slice it got:
\* out[k] = another record. The slice is the copy made by the call.
CallerSetElement ==
    /\ qres.done
    /\ \E k \in DOMAIN qres.out, j \in DOMAIN qres.out :
          /\ qres.out[k] # qres.out[j]
          /\ qres' = [qres EXCEPT !.out[k] = qres.out[j]]
    /\ UNCHANGED <<data, savedLog, lres, metricsOf>>
    /\ UNCHANGED notStoreVars

\* The caller assigns to a field of a record in the slice: out[k].Timestamp = t.
\* The record is the struct copied into the slice.
CallerSetField ==
    /\ qres.done
    /\ \E k \in DOMAIN qres.out, t \in Times :
          /\ qres.out[k].ts # t
          /\ qres' = [qres EXCEPT !.out[k].ts = t]
    /\ UNCHANGED <<data, savedLog, lres, metricsOf>>
    /\ UNCHANGED notStoreVars

\* The caller writes into the metrics map of a record in the slice:
\* out[k].Metrics[key] = v. The copied struct holds the reference to the map
\* the stored record holds.
CallerSetMetric ==
    /\ qres.done
    /\ \E k \in DOMAIN qres.out :
          /\ metricsOf[qres.out[k].id] = "saved"
          /\ metricsOf' = [metricsOf EXCEPT ![qres.out[k].id] = "changed"]
    /\ UNCHANGED <<data, savedLog, qres, lres>>
    /\ UNCHANGED notStoreVars

\* The caller of ListGPUs assigns to an element of the slice it got.
CallerSetListed ==
    /\ lres.done
    /\ \E k \in DOMAIN lres.out, g \in Gpus :
          /\ lres.out[k] # g
          /\ lres' = [lres EXCEPT !.out[k] = g]
    /\ UNCHANGED <<data, savedLog, qres, metricsOf>>
    /\ UNCHANGED notStoreVars

\* The store and a caller that changes what it was given.
IsolationNext ==
    \/ SaveBesideCaller
    \/ StoreQuery
    \/ StoreList
    \/ CallerSetElement
    \/ CallerSetField
    \/ CallerSetMetric
    \/ CallerSetListed

\* ------------------------------------------------------------------ api gateway

\* r.URL.Path below "/api/v1/gpus/", as a string over three tokens: the
\* separator, a piece of text without separator, and the text "telemetry".
PathTokens == {"/", "g", "telemetry"}
Paths == UNION {[1..n -> PathTokens] : n \in 0..MaxPathLen}

\* r.URL.Query().Get(name): "" when the parameter is absent or empty, else its
\* text. "t1" and "t2" are RFC 3339 texts of the times 1 and 2, "bad" is not one.
TimeTexts == {"", "t1", "t2", "bad"}
Methods == {"GET", "POST"}
Requests == [method : Methods, path : Paths, start : TimeTexts, end : TimeTexts]

\* strings.Split(p, "/"): the pieces between the separators, empty ones included.
RECURSIVE Split(_)
Split(p) ==
    IF \A i \in DOMAIN p : p[i] # "/"
    THEN <<p>>
    ELSE LET i == CHOOSE j \in DOMAIN p : p[j] = "/" /\ \A k \in 1..(j - 1) : p[k] # "/"
         IN  <<SubSeq(p, 1, i - 1)>> \o Split(SubSeq(p, i + 1, Len(p)))

\* time.Parse(time.RFC3339, s).
ParseTimeLenient(s) ==
    IF s = "t2" THEN [err |-> FALSE, t |-> 2] ELSE [err |-> FALSE, t |-> 1]
ParseTime(s) ==
    IF s = "t1" THEN [err |-> FALSE, t |-> 1]
    ELSE IF s = "t2" THEN [err |-> FALSE, t |-> 2]
    ELSE [err |-> TRUE, t |-> NoTime]

NoCall == [called |-> FALSE, gpu |-> <<>>, start |-> NoTime, end |-> NoTime, err |-> FALSE]

GatewayInit ==
    /\ greq = [method |-> "GET", path |-> <<>>, start |-> "", end |-> ""]
    /\ gstatus = 0
    /\ gquery = NoCall

\* The handler of "/api/v1/gpus/" serves the request. store.QueryTelemetry
\* returns an error or not, as the store decides.
ServeTelemetry ==
    /\ gstatus = 0
    /\ LET parts == Split(greq.path)
           startBad == greq.start # "" /\ ParseTime(greq.start).err
           endBad == greq.end # "" /\ ParseTime(greq.end).err
       IN  IF greq.method # "GET"
             THEN gstatus' = 405 /\ UNCHANGED gquery
           ELSE IF Len(parts) # 2 \/ parts[2] # <<"telemetry">> \/ parts[1] = <<>>
             THEN gstatus' = 404 /\ UNCHANGED gquery
           ELSE IF startBad
             THEN gstatus' = 400 /\ UNCHANGED gquery
           ELSE IF endBad
             THEN gstatus' = 400 /\ UNCHANGED gquery
           ELSE \E err \in BOOLEAN :
                   /\ gquery' = [called |-> TRUE,
                                 gpu |-> parts[1],
                                 start |-> IF greq.start = "" THEN NoTime
                                           ELSE ParseTime(greq.start).t,
                                 end |-> IF greq.end = "" THEN NoTime
                                         ELSE ParseTime(greq.end).t,
                                 err |-> err]
                   /\ gstatus' = IF err THEN 500 ELSE 200
    /\ UNCHANGED greq
    /\ UNCHANGED notGatewayVars

GatewayNext == ServeTelemetry

\* ------------------------------------------------------------------ producer: batching loop

\* Column names as toTelemetry matches them.
GpuAliases == {"gpu", "gpu_id", "gpuuuid", "gpu_uuid"}
HostAliases == {"host", "host_id", "hostname"}
FieldNameAliases == {"_field", "field_name", "metric_name", "metric", "name"}
ValueColumns == {"value", "_value"}

\* The header rows and records of the runs. A cell is a sequence of
\* characters; "7" is a digit, "G" an upper-case letter and "gpu-unknown"
\* stands for that run of characters.
HeaderNames == {"gpu_id", "gpu_uuid", "host", "power", "value", "metric"}
CellChars == Whitespace \cup {"g", "G", "7", "gpu-unknown"}
Cells == UNION {[1..n -> CellChars] : n \in 0..MaxCellLen}
HeaderRows == UNION {[1..n -> HeaderNames] : n \in 0..MaxCols}
Records == UNION {[1..n -> Cells] : n \in 0..MaxCols}

\* strconv.ParseFloat(val, 64) returns no error.
ParseFloatOK(val) == val # <<>> /\ \A i \in DOMAIN val : val[i] = "7"

\* strings.ToLower.
ToLower(s) == [i \in DOMAIN s |-> IF s[i] = "G" THEN "g" ELSE s[i]]

\* fieldNameIdx: the last column with a metric-name header (0: none, Go's -1).
fieldNameIdx(h) ==
    LET I == {i \in DOMAIN h : h[i] \in FieldNameAliases}
    IN  IF I = {} THEN 0 ELSE CHOOSE i \in I : \A j \in I : j <= i

\* make(map[string]float64) and metrics[key] = f; a key is a sequence, a
\* column name h being the key <<h>>.
NoMetrics == [k \in {} |-> <<>>]
SetMetric(m, key, f) == [k \in DOMAIN m \cup {key} |-> IF k = key THEN f ELSE m[k]]

\* The loop `for i, h := range headers` from column i on.
RECURSIVE MapColumns(_, _, _, _, _)
MapColumns(h, rec, i, gpuID, metrics) ==
    IF i > Len(h) THEN [gpuID |-> gpuID, metrics |-> metrics]
    ELSE IF i > Len(rec) THEN MapColumns(h, rec, i + 1, gpuID, metrics)
    ELSE LET val == stringsTrim(rec[i])
             fni == fieldNameIdx(h)
             key == ToLower(stringsTrim(rec[fni]))
         IN  IF h[i] \in GpuAliases THEN MapColumns(h, rec, i + 1, val, metrics)
             ELSE IF h[i] \in HostAliases THEN MapColumns(h, rec, i + 1, gpuID, metrics)
             ELSE IF ~ParseFloatOK(val) THEN MapColumns(h, rec, i + 1, gpuID, metrics)
             ELSE IF h[i] \in ValueColumns /\ fni > 0 /\ fni <= Len(rec) /\ key # <<>>
                  THEN MapColumns(h, rec, i + 1, gpuID, SetMetric(metrics, key, val))
             ELSE MapColumns(h, rec, i + 1, gpuID, SetMetric(metrics, <<h[i]>>, val))

\* toTelemetry: nil for an empty gpuID, else the TelemetryData (its ProducerId,
\* HostId and Ts do not depend on the row).
NilItem == [nil |-> TRUE, GpuId |-> <<>>, Metrics |-> NoMetrics]
toTelemetry(h, rec) ==
    LET r == MapColumns(h, rec, 1, <<>>, NoMetrics)
    IN  IF r.gpuID = <<>> THEN NilItem
        ELSE [nil |-> FALSE, GpuId |-> r.gpuID, Metrics |-> r.metrics]

\* `item != nil && item.GpuId != ""`, without the third test.
KeptUnknown(item) == ~item.nil /\ item.GpuId # <<>>

\* `item != nil && item.GpuId != "" && item.GpuId != "gpu-unknown"`.
Kept(item) == ~item.nil /\ item.GpuId # <<>> /\ item.GpuId # <<"gpu-unknown">>

\* `len(batch) >= batchSize`.
BatchOverfull(b) == Len(b) > StreamerBatchSize
BatchFull(b) == Len(b) >= StreamerBatchSize

\* The files of the streamer runs: a header with the GPU id and one metric,
\* and two records, each with a GPU id, with a blank GPU id, or with no
\* numeric metric.
SampleRecs ==
    {<< <<"g">>, <<"7">> >>, << <<"sp">>, <<"7">> >>, << <<"G">>, <<"g">> >>}
SampleFiles == [1..2 -> SampleRecs]

LoopInit ==
    /\ headers = <<"gpu_id", "power">>
    /\ csvRows = << << <<"g">>, <<"7">> >>, << <<"sp">>, <<"7">> >> >>
    /\ rpos = 1
    /\ sbatch = <<>>
    /\ rspc = "select"
    /\ tickReady = FALSE
    /\ metricIngested = 0

\* drainRemaining(ctx, client, batch, &backoff, backoffMax) is called from the
\* given arm of the select.
CallDrain(b, ctx, arm) ==
    /\ remaining' = b
    /\ dbatch' = b
    /\ drainCtx' = ctx
    /\ drpc' = "check"
    /\ rspc' = arm
    /\ drains' = drains + 1
    /\ fcCalls' = 0
    /\ acked' = 0
    /\ lastResp' = NoResp
    /\ waited' = 0

NoDrain ==
    UNCHANGED <<remaining, dbatch, drainCtx, drpc, rspc, drains, fcCalls, acked, lastResp,
                waited>>

\* The ticker sends a tick into flushTicker.C, a channel of one.
TickFire ==
    /\ ~tickReady
    /\ ~rsReturned
    /\ tickReady' = TRUE
    /\ UNCHANGED <<headers, csvRows, rpos, sbatch, rspc, metricIngested>>
    /\ UNCHANGED prodVars
    /\ UNCHANGED notStreamerVars

\* `case <-ctx.Done()`: the drain of a non-empty batch, or `return nil`.
RsShutdownArm ==
    /\ rspc = "select"
    /\ ~rsReturned
    /\ rootDone
    /\ IF sbatch # <<>>
       THEN CallDrain(sbatch, "background", "final") /\ UNCHANGED rsReturned
       ELSE rsReturned' = TRUE /\ NoDrain
    /\ UNCHANGED <<rootDone, backoff, metricErrors, metricPublished,
                   metricStreamerBackpressure>>
    /\ UNCHANGED <<headers, csvRows, rpos, sbatch, tickReady, metricIngested>>
    /\ UNCHANGED notStreamerVars

\* The drain called in the ctx.Done() arm has returned: `return nil`.
RsFinalReturn ==
    /\ rspc = "final"
    /\ drpc = "idle"
    /\ ~rsReturned
    /\ rsReturned' = TRUE
    /\ UNCHANGED <<rootDone, backoff, drpc, drainCtx, remaining, metricErrors,
                   metricPublished, metricStreamerBackpressure, drains, dbatch, fcCalls,
                   acked, lastResp, waited>>
    /\ UNCHANGED loopStateVars
    /\ UNCHANGED notStreamerVars

\* `case <-flushTicker.C`: the drain of a non-empty batch.
RsTickArm ==
    /\ rspc = "select"
    /\ ~rsReturned
    /\ tickReady
    /\ tickReady' = FALSE
    /\ IF sbatch # <<>> THEN CallDrain(sbatch, "root", "tick") ELSE NoDrain
    /\ UNCHANGED <<rootDone, backoff, metricErrors, metricPublished,
                   metricStreamerBackpressure, rsReturned>>
    /\ UNCHANGED <<headers, csvRows, rpos, sbatch, metricIngested>>
    /\ UNCHANGED notStreamerVars

\* The drain of a timer or size flush has returned: `batch = batch[:0]`.
RsFlushDone ==
    /\ rspc \in {"tick", "size"}
    /\ drpc = "idle"
    /\ sbatch' = <<>>
    /\ rspc' = "select"
    /\ UNCHANGED prodVars
    /\ UNCHANGED <<headers, csvRows, rpos, tickReady, metricIngested>>
    /\ UNCHANGED notStreamerVars

\* `default:` with reader.Read() at the end of the file: seek to the start,
\* read the header again, `continue`.
RsRewind ==
    /\ rspc = "select"
    /\ ~rsReturned
    /\ ~rootDone
    /\ ~tickReady
    /\ rpos > Len(csvRows)
    /\ rpos' = 1
    /\ UNCHANGED prodVars
    /\ UNCHANGED <<headers, csvRows, sbatch, rspc, tickReady, metricIngested>>
    /\ UNCHANGED notStreamerVars

\* `default:` with reader.Read() returning a record: the record is mapped,
\* appended if it is kept, and the batch drained if it has reached batchSize.
RsDefaultArm ==
    /\ rspc = "select"
    /\ ~rsReturned
    /\ ~rootDone
    /\ ~tickReady
    /\ rpos <= Len(csvRows)
    /\ metricIngested < MaxRows
    /\ LET item == toTelemetry(headers, csvRows[rpos])
           b == IF Kept(item) THEN Append(sbatch, item) ELSE sbatch
       IN  /\ sbatch' = b
           /\ IF BatchFull(b) THEN CallDrain(b, "root", "size") ELSE NoDrain
    /\ rpos' = rpos + 1
    /\ metricIngested' = metricIngested + 1
    /\ UNCHANGED <<rootDone, backoff, metricErrors, metricPublished,
                   metricStreamerBackpressure, rsReturned>>
    /\ UNCHANGED <<headers, csvRows, tickReady>>
    /\ UNCHANGED notStreamerVars

\* `default:` with reader.Read(), the seek or the header read failing:
\* runStreamer returns the error.
RsReadError ==
    /\ rspc = "select"
    /\ ~rsReturned
    /\ ~rootDone
    /\ ~tickReady
    /\ rsReturned' = TRUE
    /\ UNCHANGED <<rootDone, backoff, drpc, drainCtx, remaining, metricErrors,
                   metricPublished, metricStreamerBackpressure, drains, dbatch, fcCalls,
                   acked, lastResp, waited>>
    /\ UNCHANGED loopStateVars
    /\ UNCHANGED notStreamerVars

\* runStreamer with its drains, the ticker, the signal and the broker's answers.
LoopNext ==
    \/ RootCancel
    \/ TickFire
    \/ RsShutdownArm
    \/ RsFinalReturn
    \/ RsTickArm
    \/ RsFlushDone
    \/ RsRewind
    \/ RsDefaultArm
    \/ RsReadError
    \/ DrainCheck
    \/ DrainPublishError
    \/ DrainPublishBackpressure
    \/ DrainPublishOK
    \/ DrainSleep

\* One read of the default arm (and the rewind at the end of the file).
RowNext ==
    \/ RsDefaultArm
    \/ RsRewind

\* ------------------------------------------------------------------ specifications

Init ==
    /\ BrokerInit /\ ProducerInit /\ CollectorInit /\ ValInit /\ StoreInit
    /\ GatewayInit /\ LoopInit

\* The broker with its publishers and subscribers; the producer is not running.
Next == BrokerNext

Spec == Init /\ [][Next]_vars

\* The broker with queues of two records, one publisher, and subscribers that
\* stay: no cancellation, no failed send.
InitOrder ==
    /\ NewServer(OrderQueueCap, OrderSubBuf)
    /\ ProducerInit /\ CollectorInit /\ ValInit /\ StoreInit /\ GatewayInit /\ LoopInit

SpecOrder == InitOrder /\ [][OrderNext]_vars

\* The broker with a slow subscriber and a draining one; the dispatcher and
\* the draining subscriber's Subscribe call take the steps they can take.
SpecSlow ==
    /\ Init /\ [][SlowNext]_vars
    /\ WF_vars(DispatcherStep)
    /\ WF_vars(DrainStep(2))

\* The producer against a broker that answers within the PublishResponse contract.
SpecProducer == Init /\ [][ProducerNext]_vars

\* The same, where runStreamer takes a step it can take and every publish call
\* is answered; what the broker answers, and when shutdown is signalled, is free.
SpecProducerFair == SpecProducer /\ WF_vars(StreamerStep)

\* The collector loop and its workers, with the broker's stream, the ticker,
\* the shutdown signal and the store as environment.
SpecCollector == Init /\ [][CollectorNext]_vars

\* The same, where the loop and the workers take a step they can take; the
\* environment owes nothing.
SpecCollectorFair == SpecCollector /\ WF_vars(CollectorStep)

\* The collector where the loop takes a step it can take, the shutdown timer
\* fires once armed, and a worker receives from the jobs channel when it is
\* at its range loop; a store.SaveTelemetry call need not return.
SpecStuckStore ==
    /\ SpecCollector
    /\ WF_vars(LoopStep)
    /\ WF_vars(CollTimeout)
    /\ \A w \in Workers : WF_vars(WorkerTake(w)) /\ WF_vars(WorkerExit(w))

\* validate applied to any message with a gpu_id of at most MaxGpuLen characters.
InitValidate ==
    /\ BrokerInit /\ ProducerInit /\ CollectorInit /\ StoreInit /\ GatewayInit
    /\ LoopInit
    /\ vmsg \in AllMsgs
    /\ vres = "none"

SpecValidate == InitValidate /\ [][ValidateCall]_vars

\* The in-memory store under any order of SaveTelemetry, QueryTelemetry and
\* ListGPUs calls (each runs under the store's lock).
SpecStore == Init /\ [][StoreNext]_vars

\* The in-memory store with callers that write into the results they hold.
SpecIsolation == Init /\ [][IsolationNext]_vars

\* QueryTelemetry with the gpu id "" on each implementation of Store.
SpecEmptyId == Init /\ [][EmptyIdNext]_vars

\* The telemetry handler applied to any request with a path of at most
\* MaxPathLen tokens, over a store that may fail.
InitGateway ==
    /\ BrokerInit /\ ProducerInit /\ CollectorInit /\ ValInit /\ StoreInit /\ LoopInit
    /\ greq \in Requests
    /\ gstatus = 0
    /\ gquery = NoCall

SpecGateway == InitGateway /\ [][GatewayNext]_vars

\* runStreamer reading a file of two records in a loop, at most MaxRows reads.
InitStreamer ==
    /\ BrokerInit /\ ProducerInit /\ CollectorInit /\ ValInit /\ StoreInit /\ GatewayInit
    /\ headers = <<"gpu_id", "power">>
    /\ csvRows \in SampleFiles
    /\ rpos = 1
    /\ sbatch = <<>>
    /\ rspc = "select"
    /\ tickReady = FALSE
    /\ metricIngested = 0

SpecStreamer == InitStreamer /\ [][LoopNext]_vars

\* One pass of the default arm over any header row and any one-record file of
\* at most MaxCols columns.
InitRow ==
    /\ BrokerInit /\ ProducerInit /\ CollectorInit /\ ValInit /\ StoreInit /\ GatewayInit
    /\ headers \in HeaderRows
    /\ csvRows \in {<<r>> : r \in Records}
    /\ rpos = 1
    /\ sbatch = <<>>
    /\ rspc = "select"
    /\ tickReady = FALSE
    /\ metricIngested = 0

SpecRow == InitRow /\ [][RowNext]_vars

\* ------------------------------------------------------------------ properties

\* No stream.Send has failed so far.
NoSendFailure ==
    /\ metricRequeued = 0
    /\ dropped = {}
    /\ \A s \in Subs : spc[s] \notin {"requeue", "ret"}

\* r went onto inbound in some PublishBatch call.
Accepted(r) == \E c \in Calls : r \in Range(enq[c])

\* A copy of r is still where it can reach a stream: on inbound, with the
\* dispatcher, in the buffer of a Subscribe call that is still receiving, or
\* in the hands of one that is sending or about to requeue it.
InBroker(r) ==
    \/ r \in Range(inbound)
    \/ dpc # "recv" /\ dmsg = r
    \/ \E s \in Subs : spc[s] \in {"wait", "send"} /\ r \in Range(subch[s])
    \/ \E s \in Subs : spc[s] \in {"send", "requeue"} /\ hand[s] = r

\* s is on the subscriber list and its Subscribe call is serving its stream.
Registered(s) == spc[s] \in {"wait", "send"} /\ OnList(s)

\* C1: while no send has failed, the dispatcher places the record it took
\* from inbound into the buffer of at most one subscriber.
C1_OneBufferPerRecord == NoSendFailure => Cardinality(dplaced) <= 1

\* C2: when a PublishBatch call has returned (accepted, status), the items it
\* put on inbound are exactly the first `accepted` items of its batch, in order.
C2_AcceptPrefix ==
    \A c \in Calls :
        (ppc[c] = "done" /\ resp[c].status # "ERROR")
            => enq[c] = SubSeq(batch[c], 1, resp[c].accepted)

\* Call 1 stopped after its first item while call 2, begun later, got its item in.
C2_Witness ==
    /\ ppc[1] = "done" /\ Len(batch[1]) = 2 /\ resp[1] = BackpressureResp(1)
    /\ ppc[2] = "done" /\ resp[2] = OKResp(1)
    /\ enq[1] = <<Rec(1, 1)>> /\ enq[2] = <<Rec(2, 1)>>

\* C3: a non-error response has 0 <= accepted <= len(batch), status OK only
\* with accepted = len(batch), status BACKPRESSURE only with accepted < len(batch).
C3_ResponseInvariant ==
    \A c \in Calls :
        (ppc[c] = "done" /\ resp[c].status # "ERROR")
            => /\ resp[c].status \in {"OK", "BACKPRESSURE"}
               /\ 0 <= resp[c].accepted /\ resp[c].accepted <= Len(batch[c])
               /\ resp[c].status = "OK" => resp[c].accepted = Len(batch[c])
               /\ resp[c].status = "BACKPRESSURE" => resp[c].accepted < Len(batch[c])

\* One call answered OK for a two-item batch, the other BACKPRESSURE.
C3_Witness ==
    /\ ppc[1] = "done" /\ resp[1] = OKResp(2)
    /\ ppc[2] = "done" /\ resp[2] = BackpressureResp(0) /\ Len(batch[2]) = 1

\* C4: on a fresh broker with no subscriber, the only PublishBatch call, of
\* more than queueCap items, returns accepted = queueCap with BACKPRESSURE.
C4_BackpressureAtCapacity ==
    (/\ ppc[1] = "done" /\ resp[1].status # "ERROR"
     /\ Len(batch[1]) > QueueCap
     /\ \A c \in Calls \ {1} : ppc[c] = "idle"
     /\ SubsBegun = 0)
        => resp[1] = BackpressureResp(QueueCap)

\* The records a subscriber has received while nothing has been sent yet:
\* those in its buffer and the one in its hands.
Received(s) == Len(subch[s]) + (IF hand[s] # NoRec THEN 1 ELSE 0)

\* C5: N >= 2 subscribers registered before the first publish, none removed,
\* a free buffer slot at every attempt: once the K accepted records have all
\* been dispatched, each subscriber has received floor(K/N) or ceil(K/N).
C5_RoundRobinFair ==
    (/\ steady /\ NoSendFailure /\ metricDelivered = 0
     /\ Len(subs) >= 2
     /\ inbound = <<>> /\ dpc = "recv")
        => LET K == metricEnqueued
               N == Len(subs)
           IN  \A i \in DOMAIN subs :
                   Received(subs[i]) \in {K \div N, (K + N - 1) \div N}

\* C6: a record put back on inbound after a send failure is eventually sent to
\* another subscriber that stays registered and accepts sends. A record with
\* no copy left in the broker can never be sent, so the claim needs: while a
\* subscriber that was registered at the requeue is still registered, a
\* requeued record not sent since is still in the broker (the documented drop
\* by a later requeue attempt that finds inbound full is set aside).
C6_RequeuedReachesSubscriber ==
    \A p \in rqPending :
        Registered(p[2]) => (InBroker(p[1]) \/ p[1] \in dropped)

\* C7: an accepted record leaves the broker unsent only by a requeue attempt
\* that finds inbound full.
C7_SingleLossHole ==
    \A r \in AllRecs : Accepted(r) => (InBroker(r) \/ r \in sent \/ r \in dropped)

\* C8: an accepted record is eventually sent while some subscriber stays
\* registered and accepts sends. A record with no copy left in the broker can
\* never be sent, so the claim needs: while some subscriber is registered,
\* every accepted record has been sent or is still in the broker.
C8_EventualDelivery ==
    \A r \in AllRecs :
        (Accepted(r) /\ \E k \in Subs : Registered(k)) => (r \in sent \/ InBroker(r))

\* C9: inbound never holds more than queueCap records, no subscriber buffer
\* more than subBuf; a publish iteration and a requeue attempt can always be
\* taken at once, and a call makes at most len(batch) enqueue attempts.
C9_BoundedNonBlocking ==
    /\ Len(inbound) <= QueueCap
    /\ \A s \in Subs : Len(subch[s]) <= SubBuf
    /\ \A c \in Calls : attempts[c] <= Len(batch[c])
    /\ \A c \in Calls : ppc[c] = "loop" => ENABLED PubStep(c)
    /\ \A s \in Subs : spc[s] = "requeue" => ENABLED SubRequeue(s)

\* Both queues full, a requeue attempt has dropped its record instead of
\* waiting, and a call has returned after trying each of its two items.
C9_Witness ==
    /\ Len(inbound) = QueueCap
    /\ \E s \in Subs : Len(subch[s]) = SubBuf
    /\ dropped # {}
    /\ \E c \in Calls : ppc[c] = "done" /\ Len(batch[c]) = 2 /\ attempts[c] = 2

\* What the drain has left to offer is its batch without the items accepted so far.
Unaccepted == SubSeq(dbatch, acked + 1, Len(dbatch))

\* C10: drainRemaining offers only the not-yet-accepted suffix of its batch;
\* a BACKPRESSURE response with accepted = a moves remaining forward by exactly
\* a; after an OK response the drain makes no further publish call.
C10_PartialAcceptDrain ==
    /\ [](drpc = "call" => remaining = Unaccepted)
    /\ [][(fcCalls' = fcCalls + 1 /\ lastResp'.status = "BACKPRESSURE")
            => /\ Len(remaining') = Len(remaining) - lastResp'.accepted
               /\ remaining' = Unaccepted']_vars
    /\ [][lastResp.status = "OK" => (fcCalls' = fcCalls \/ fcCalls' = 0)]_vars

\* Three items, BACKPRESSURE with accepted = 1, then OK for the other two: the
\* drain has ended after exactly two publish calls.
C10_Witness ==
    /\ drpc = "idle" /\ Len(dbatch) = 3
    /\ fcCalls = 2 /\ acked = 1
    /\ lastResp = OKResp(2) /\ remaining = <<>>

\* C11: when a publish call of a drain is answered OK, backoff is the initial
\* 100 ms in the state right after it, and it stays so until the next drain.
C11_BackoffReset ==
    /\ [](lastResp.status = "OK" => backoff = InitialBackoff)
    /\ [][(fcCalls' = fcCalls + 1 /\ lastResp'.status = "OK")
            => backoff' = InitialBackoff]_vars

\* The second drain was answered BACKPRESSURE twice and then OK: backoff,
\* which had grown during the drain, is back at 100 ms.
C11_Witness ==
    /\ drains = 2 /\ fcCalls = 3 /\ acked = 1
    /\ lastResp.status = "OK"
    /\ backoff = InitialBackoff

\* C12: backoff never exceeds backoffMax.
C12_BackoffCap == backoff <= BackoffMax

\* ---- collector

\* The gpu_id has a character that is not white space.
HasVisibleChar(m) == \E i \in DOMAIN m.gpu : m.gpu[i] \notin Whitespace

\* C13: validate(m) is true exactly for a non-nil m whose gpu_id is non-empty
\* after trimming white space and whose timestamp is present.
C13_ValidateIff ==
    vres # "none"
        => (vres = "true" <=> (~vmsg.nil /\ HasVisibleChar(vmsg) /\ vmsg.ts))

\* validate accepted a gpu_id with white space on both sides of its text.
C13_Witness ==
    /\ vres = "true"
    /\ vmsg.gpu = <<"sp", "g", "tab">>

\* The records Recv has returned so far, and the valid ones among them.
ReceivedIds == 1..(Len(arrived) - Len(stream))
ValidIds == {r \in ReceivedIds : ~arrived[r].nil /\ HasVisibleChar(arrived[r]) /\ arrived[r].ts}
InvalidIds == ReceivedIds \ ValidIds

\* The records in the jobs channel and in the hands of the workers.
InJobs == UNION {Range(jobs[i]) : i \in DOMAIN jobs}
InWorkers == UNION {Range(wjob[w]) : w \in Workers}

\* C14: every invalid record received is counted in
\* messages_dropped_invalid_total, and is never in the batch, in a job, or saved.
C14_ValidationDrop ==
    /\ metricDroppedInvalid = Cardinality(InvalidIds)
    /\ \A r \in InvalidIds :
          /\ r \notin Range(cbatch) \cup Range(cjob) \cup InJobs \cup InWorkers
          /\ handed[r] = 0
          /\ saved[r] = 0

\* An invalid record came between two valid ones, which were flushed together
\* and saved.
C14_Witness ==
    /\ Len(arrived) = 3 /\ stream = <<>>
    /\ InvalidIds = {2}
    /\ metricDroppedInvalid = 1
    /\ saved[1] = 1 /\ saved[3] = 1

\* C15: when runCollectorLoop has returned after the stream ended or shutdown
\* was signalled, without the shutdown timeout and with no failed save, every
\* valid record received has been saved exactly once, and nothing else was saved.
C15_FinalFlush ==
    (lpc = "done" /\ ~timedOut /\ ~saveFailed)
        => /\ \A r \in ValidIds : saved[r] = 1
           /\ \A r \in RecIds \ ValidIds : saved[r] = 0

\* Three valid records, the stream ended: two went out by size, the third was
\* in the partial batch; the loop has returned and all three are saved.
C15_Witness ==
    /\ lpc = "done" /\ ~timedOut /\ ~saveFailed
    /\ streamEnded /\ ~collDone
    /\ ValidIds = {1, 2, 3}
    /\ metricFlushed = 3
    /\ \A r \in 1..3 : saved[r] = 1

\* C16: the batch never holds more than batchSize records, it holds fewer
\* whenever the loop is about to receive, and no job carries more than batchSize.
C16_SizeFlush ==
    /\ Len(cbatch) <= BatchSize
    /\ lpc \in {"select", "recv"} => Len(cbatch) < BatchSize
    /\ Len(cjob) <= BatchSize
    /\ \A i \in DOMAIN jobs : Len(jobs[i]) <= BatchSize

\* A job of exactly batchSize records is on the jobs channel, the batch is
\* empty again and the loop is receiving.
C16_Witness ==
    /\ lpc = "recv" /\ cbatch = <<>>
    /\ ~tickPending /\ ~collDone /\ ~streamEnded
    /\ jobs = <<<<1, 2>>>>

\* C17: once the ticker has fired with a non-empty batch, the batch is handed
\* to the workers (and then saved).
C17_TimerFlush == (tickPending /\ cbatch # <<>>) ~> (cbatch = <<>>)

\* ---- in-memory store

\* The ids of the records saved for gpu g in the first n saves.
SavedFor(g, n) == {i \in 1..n : savedLog[i].gpu = g}

\* out holds exactly the records with the ids in I, each once, as they were saved.
Holds(out, I) ==
    /\ Len(out) = Cardinality(I)
    /\ {out[k].id : k \in DOMAIN out} = I
    /\ \A k \in DOMAIN out : out[k].ts = savedLog[out[k].id].ts

\* C18: QueryTelemetry(gpu, nil, nil) returns all the records saved for the
\* gpu, in non-decreasing timestamp order.
C18_MonotoneTime ==
    (qres.done /\ qres.start = NoTime /\ qres.end = NoTime)
        => /\ Holds(qres.out, SavedFor(qres.gpu, qres.at))
           /\ \A j, k \in DOMAIN qres.out : j < k => qres.out[j].ts <= qres.out[k].ts

\* Saved at 2, 1, 3 for one gpu; returned as 1, 2, 3.
C18_Witness ==
    /\ qres.done /\ qres.start = NoTime /\ qres.end = NoTime
    /\ savedLog = <<[gpu |-> 1, ts |-> 2], [gpu |-> 1, ts |-> 1], [gpu |-> 1, ts |-> 3]>>
    /\ qres.at = 3 /\ qres.gpu = 1
    /\ [k \in DOMAIN qres.out |-> qres.out[k].ts] = <<1, 2, 3>>

\* C19: QueryTelemetry(gpu, start, end) returns exactly the records saved for
\* the gpu with start <= t <= end, a nil bound being no bound.
C19_QueryWindow ==
    qres.done
        => Holds(qres.out,
                 {i \in SavedFor(qres.gpu, qres.at) :
                     /\ qres.start # NoTime => qres.start <= savedLog[i].ts
                     /\ qres.end # NoTime => savedLog[i].ts <= qres.end})

\* Records at 1, 2, 3 of one gpu; the window [2, 3] returns the records at 2
\* and 3, those on its bounds, and not the one at 1.
C19_Witness ==
    /\ qres.done /\ qres.gpu = 1 /\ qres.start = 2 /\ qres.end = 3
    /\ qres.at = 3
    /\ {savedLog[i].ts : i \in SavedFor(1, 3)} = {1, 2, 3}
    /\ [k \in DOMAIN qres.out |-> qres.out[k].ts] = <<2, 3>>

\* C20: ListGPUs returns the gpu ids with at least one saved record, each
\* once, in ascending order.
C20_ListGPUs ==
    lres.done
        => /\ Range(lres.out) = {savedLog[i].gpu : i \in 1..lres.at}
           /\ \A j, k \in DOMAIN lres.out : j < k => lres.out[j] < lres.out[k]

\* Saved for the later id first and twice, then for the earlier id.
C20_Witness ==
    /\ lres.done /\ lres.at = 3
    /\ [i \in 1..3 |-> savedLog[i].gpu] = <<2, 2, 1>>
    /\ lres.out = <<1, 2>>

\* ---- broker: degenerate publishes, subscriber registry, requeue drop

\* Call c begins and returns in this step: its request is nil or has no items.
Degenerate(c) == ppc[c] = "idle" /\ ppc'[c] = "done"

\* C22: a PublishBatch call with an empty batch returns (0, OK) and one with a
\* nil batch returns the error (no other call returns the error); either
\* leaves the inbound queue and every counter as they were.
C22_DegeneratePublish ==
    /\ [][\A c \in Calls :
            Degenerate(c)
                => /\ resp'[c] \in {[accepted |-> 0, status |-> "OK"], ErrorResp}
                   /\ inbound' = inbound
                   /\ metricVars' = metricVars
                   /\ attempts'[c] = 0 /\ enq'[c] = <<>>]_vars
    /\ [](\A c \in Calls :
            ppc[c] = "done"
                => /\ resp[c].status = "ERROR" => attempts[c] = 0
                   /\ (batch[c] = <<>> /\ resp[c].status # "ERROR")
                         => resp[c] = [accepted |-> 0, status |-> "OK"])

\* With one record on the full inbound queue and the counters at 1 and 0, an
\* empty batch was answered (0, OK) and a nil one with the error.
C22_Witness ==
    /\ ppc[1] = "done" /\ resp[1] = [accepted |-> 1, status |-> "OK"]
    /\ ppc[2] = "done" /\ batch[2] = <<>>
    /\ resp[2] \in {[accepted |-> 0, status |-> "OK"], ErrorResp}
    /\ inbound = <<Rec(1, 1)>>
    /\ metricEnqueued = 1 /\ metricBackpressure = 0

\* C23: a record goes into the buffer of a subscriber only while that
\* subscriber is on the subscriber list.
C23_NoDeliveryAfterRemoval ==
    [][\A s \in Subs : Len(subch'[s]) > Len(subch[s]) => OnList(s)]_vars

\* C24: the subscribers on the list have distinct ids.
C24_UniqueIds ==
    \A i, j \in DOMAIN subs : i # j => sid[subs[i]] # sid[subs[j]]

\* C25: the list holds exactly the subscribers whose Subscribe call is in
\* progress (added, not returned) and has not failed a send; the gauge equals
\* the length of the list.
C25_Registry ==
    /\ \A s \in Subs : OnList(s) <=> spc[s] \in {"wait", "send"}
    /\ \A i, j \in DOMAIN subs : i # j => subs[i] # subs[j]
    /\ metricSubscribers = Len(subs)

\* C26: a requeue attempt that drops its record moves some counter, and it
\* does not move messages_requeued_total.
C26_CountedRequeueDrop ==
    [][dropped' # dropped
        => /\ metricVars' # metricVars
           /\ metricRequeued' = metricRequeued]_vars

\* The records accepted so far, in the order of acceptance when the calls are
\* made one after the other: call order, and batch order within a call.
RECURSIVE AcceptedUpTo(_)
AcceptedUpTo(c) ==
    IF c = 0 THEN <<>> ELSE AcceptedUpTo(c - 1) \o SubSeq(batch[c], 1, accepted[c])

AcceptOrder == AcceptedUpTo(NCalls)

\* C27: with one publisher and one subscriber (registered, staying, no failed
\* send), the records sent on its stream so far are the first records accepted,
\* each sent once, so that the k-th send is the k-th accepted record; and for
\* every subscriber a buffer gets a record at its tail, gives the record at its
\* head to Subscribe, and the record sent is the one taken.
C27_DeliveryOrder ==
    /\ [](SubsBegun = 1
            => /\ metricDelivered = Cardinality(sent)
               /\ metricDelivered <= Len(AcceptOrder)
               /\ sent = {AcceptOrder[i] : i \in 1..metricDelivered})
    /\ [][\A s \in Subs :
            /\ subch'[s] # subch[s]
                  => \/ dpc = "try" /\ subch'[s] = Append(subch[s], dmsg)
                     \/ /\ subch[s] # <<>> /\ subch'[s] = Tail(subch[s])
                        /\ hand'[s] = Head(subch[s])
            /\ (spc[s] = "send" /\ spc'[s] # "send")
                  => sent' = sent \cup {hand[s]}]_vars

\* Two calls of one publisher, two records and then one, one subscriber: all
\* three have been sent.
C27_Witness ==
    /\ SubsBegun = 1
    /\ Len(batch[1]) = 2 /\ Len(batch[2]) = 1
    /\ AcceptOrder = <<Rec(1, 1), Rec(1, 2), Rec(2, 1)>>
    /\ metricDelivered = 3
    /\ sent = {Rec(1, 1), Rec(1, 2), Rec(2, 1)}

\* Subscriber 1 is registered with a full buffer that will not drain (its
\* Subscribe call is inside stream.Send), and subscriber 2 is registered.
SlowAndDraining ==
    /\ Registered(1) /\ Registered(2)
    /\ spc[1] = "send"
    /\ Len(subch[1]) = subBuf

\* C28: while subscriber 1 is registered with a buffer full of other records
\* that never drains and subscriber 2 is registered and drains, every record
\* the dispatcher holds is sent on the stream of subscriber 2, and a pass of
\* the dispatcher over the subscribers never waits: its next attempt can
\* always be made at once, and it leaves the full buffer as it is.
C28_SlowSubscriberIsolation ==
    /\ \A r \in AllRecs :
          (SlowAndDraining /\ dpc # "recv" /\ dmsg = r /\ r \notin Range(subch[1]))
              ~> (r \in sent)
    /\ [](dpc = "try" => ENABLED DispTry)
    /\ [][SlowAndDraining => subch'[1] = subch[1]]_vars

\* Subscriber 1 holds the first record in stream.Send and the second in its
\* full buffer; subscriber 2 has sent both and is sending the third, which the
\* dispatcher took after the second and could place in its buffer only.
C28_Witness ==
    /\ SlowAndDraining
    /\ hand[1] = Rec(1, 1) /\ subch[1] = <<Rec(1, 2)>>
    /\ sent = {Rec(1, 1), Rec(1, 2)}
    /\ metricDelivered = 2
    /\ spc[2] = "send" /\ hand[2] = Rec(2, 1)

\* ---- api gateway

\* The path is {id}/telemetry with a non-empty id that has no separator.
IsTelemetryPath(p) ==
    /\ Len(p) >= 3
    /\ p[Len(p)] = "telemetry"
    /\ p[Len(p) - 1] = "/"
    /\ \A i \in 1..(Len(p) - 2) : p[i] # "/"

\* The parameter was given a text that is not RFC 3339.
Malformed(s) == s \notin {"", "t1", "t2"}

PublishFailed ==
    /\ drpc = "call" /\ drpc' # "call"
    /\ lastResp'.status = "ERROR"
    /\ ~CtxDone

\* The wait after a transport error runs to its end in this step.
ErrorWaitOver ==
    /\ drpc = "sleep" /\ drpc' = "check"
    /\ lastResp.status = "ERROR"

\* What C29 says of everything but the new value of backoff: the error counter
\* goes up by one and remaining is kept at the failure; the wait lasts the
\* backoff of that moment; remaining is kept until the next call, which follows
\* unless shutdown is requested.
ErrorRetry ==
    /\ [][PublishFailed
            => /\ metricErrors < MaxPubCalls => metricErrors' = metricErrors + 1
               /\ remaining' = remaining
               /\ drpc' = "sleep"]_vars
    /\ [][ErrorWaitOver => (waited' = backoff /\ remaining' = remaining)]_vars
    /\ [][(lastResp.status = "ERROR" /\ drpc = "check")
            => /\ remaining' = remaining
               /\ (~CtxDone /\ drpc' # drpc) => drpc' = "call"]_vars

C30_ShutdownTerminates == rootDone ~> rsReturned

\* ------------------------------------------------------------------ C31

\* The step is the ticker arm / the ctx.Done() arm of runStreamer's select.
TickArmTaken == tickReady /\ ~tickReady'
ShutdownArmTaken == rspc = "select" /\ rootDone /\ (rspc' = "final" \/ (~rsReturned /\ rsReturned'))

\* The step calls drainRemaining from the given arm with the whole batch.
DrainCalled(ctx, arm) ==
    /\ rspc' = arm
    /\ drpc' = "check"
    /\ drainCtx' = ctx
    /\ remaining' = sbatch'
    /\ sbatch' # <<>>

GpuColumns(h, rec) == {i \in DOMAIN h \cap DOMAIN rec : h[i] \in GpuAliases}
GpuCell(h, rec) ==
    LET I == GpuColumns(h, rec)
    IN  IF I = {} THEN <<>>
        ELSE stringsTrim(rec[CHOOSE i \in I : \A j \in I : j <= i])

\* No column of the row outside the GPU-id and host-id columns holds a number.
NoNumericCell(h, rec) ==
    \A i \in DOMAIN h \cap DOMAIN rec :
        h[i] \in GpuAliases \cup HostAliases \/ ~ParseFloatOK(stringsTrim(rec[i]))

\* The step reads the record csvRows[rpos]; it drops it, or appends an item.
ReadsRow == metricIngested' = metricIngested + 1
RowDropped == sbatch' = sbatch
RowAppended == Len(sbatch') = Len(sbatch) + 1 /\ SubSeq(sbatch', 1, Len(sbatch)) = sbatch

HandedIds == {r \in RecIds : handed[r] > 0}
SaveCalls == metricFlushed + metricFlushErrors

\* The worker's remaining items are the end of its job.
IsSuffix(t, q) == Len(t) <= Len(q) /\ t = SubSeq(q, Len(q) - Len(t) + 1, Len(q))

\* C33: a worker goes through its job item by item whatever SaveTelemetry
\* returns: each call counts once, in messages_flushed_total or in
\* flush_errors_total, and moves the worker to the next item of the same job;
\* a worker leaves a job only with all its items tried, so the calls made
\* are exactly the records handed over less those still waiting.
C33_WorkerFailureIsolation ==
    /\ [](/\ \A w \in Workers :
                /\ IsSuffix(wjob[w], wtaken[w])
                /\ wpc[w] = "save" <=> wjob[w] # <<>>
                /\ wjob[w] = <<>> <=> wtaken[w] = <<>>
          /\ SaveCalls = Cardinality(HandedIds) - Cardinality(InJobs)
                            - Cardinality(InWorkers)
          /\ \A r \in RecIds : saved[r] <= 1)
    /\ [][\A w \in Workers :
            wjob'[w] # wjob[w] =>
                \/ /\ wjob[w] = <<>>
                   /\ jobs # <<>>
                   /\ wjob'[w] = Head(jobs)
                   /\ wtaken'[w] = Head(jobs)
                   /\ SaveCalls' = SaveCalls
                \/ /\ wjob[w] # <<>>
                   /\ wjob'[w] = Tail(wjob[w])
                   /\ SaveCalls' = SaveCalls + 1
                   /\ \/ /\ metricFlushed' = metricFlushed + 1
                         /\ saved'[Head(wjob[w])] = saved[Head(wjob[w])] + 1
                      \/ /\ metricFlushErrors' = metricFlushErrors + 1
                         /\ saved' = saved]_vars

\* The save of the first record of a job of two has failed, and the worker
\* is about to save the second.
C33_Witness ==
    \E w \in Workers :
        /\ wpc[w] = "save"
        /\ wtaken[w] = <<1, 2>>
        /\ wjob[w] = <<2>>
        /\ metricFlushErrors = 1
        /\ metricFlushed = 0
        /\ saved[1] = 0

\* ------------------------------------------------------------------ C34

\* C34: once the final flush has begun (after the shutdown signal or a Recv
\* error, with a batch to hand over), runCollectorLoop returns, also when the
\* workers are stuck in storage writes and the jobs channel is full.
C34_ShutdownBounded == closing ~> (lpc = "done")

\* ------------------------------------------------------------------ C35

\* The number of places a record waits in before it is handed to the workers.
Waiting(r) ==
    (IF r \in Range(cbatch) THEN 1 ELSE 0) + (IF r \in Range(cjob) THEN 1 ELSE 0)

\* C35: a flush moves the whole batch into a job of its own and leaves the
\* batch empty; the jobs channel never holds more than its capacity; with the
\* channel full the loop stays at the send, job in hand, until a worker has
\* taken a job, and leaves the send only by putting the job on the channel;
\* a queued job is never altered; every valid record received is in the
\* batch, in the job being sent, or was handed over, and in one of them only.
C35_FlushHandOff ==
    /\ [](/\ Len(jobs) <= JobsCap
          /\ cjob # <<>> <=> lpc = "send"
          /\ \A r \in ValidIds : Waiting(r) + handed[r] = 1
          /\ \A r \in RecIds \ ValidIds : Waiting(r) + handed[r] = 0)
    /\ [][/\ (cjob = <<>> /\ cjob' # <<>>)
               => /\ cbatch' = <<>>
                  /\ \/ cjob' = cbatch
                     \/ \E r \in RecIds : cjob' = Append(cbatch, r)
          /\ (lpc = "send" /\ Len(jobs) = JobsCap) => (lpc' = "send" /\ cjob' = cjob)
          /\ (lpc = "send" /\ lpc' # "send") => jobs' = Append(jobs, cjob)
          /\ \/ jobs' = jobs
             \/ jobs' = Append(jobs, cjob)
             \/ jobs # <<>> /\ jobs' = Tail(jobs)]_vars

\* The channel is full with a job of two that no worker has taken yet, and
\* the next job of two waits at the send.
C35_Witness ==
    /\ lpc = "send"
    /\ ~closing
    /\ Len(jobs) = JobsCap
    /\ jobs[1] = <<1, 2>>
    /\ cjob = <<3, 4>>
    /\ cbatch = <<>>

\* ------------------------------------------------------------------ C36

\* The step is the one in which stream.Recv() returns an error / in which the
\* select takes the ctx.Done() arm.
RecvFails == recvErr = "nil" /\ recvErr' # "nil"
ShutdownSeen == lpc = "select" /\ lpc' \in {"send", "wait"} /\ (closing' \/ jobsClosed')

\* The final flush begins: a non-empty batch becomes the last job, after
\* which jobs is closed; with an empty batch jobs is closed at once.
FinalFlushBegins ==
    /\ cbatch' = <<>>
    /\ IF cbatch # <<>>
       THEN lpc' = "send" /\ closing' /\ cjob' = cbatch
       ELSE lpc' = "wait" /\ jobsClosed' /\ cjob' = <<>>

\* C36: a Recv error, io.EOF included, starts the final flush in the same
\* step, after it nothing is received and the loop does not go back to its
\* select; when the loop has returned, the batch was handed over and jobs
\* closed, and the value returned is the Recv error wrapped if there was one,
\* else nil, which is returned only after the select saw the shutdown signal.
C36_ExitValue ==
    /\ [](/\ lpc # "done" <=> cret = "running"
          /\ lpc = "done" =>
                /\ cbatch = <<>> /\ cjob = <<>> /\ jobsClosed
                /\ recvErr = "EOF" => cret = "recv: EOF"
                /\ recvErr = "canceled" => cret = "recv: canceled"
                /\ recvErr = "nil" => (cret = "nil" /\ collDone)
          /\ recvErr = "EOF" => (streamEnded /\ stream = <<>>)
          /\ recvErr = "canceled" => collDone
          /\ recvErr # "nil" => lpc \in {"send", "wait", "done"})
    /\ [][/\ RecvFails => (lpc = "recv" /\ FinalFlushBegins)
          /\ ShutdownSeen => (collDone /\ recvErr = "nil" /\ FinalFlushBegins)
          /\ recvErr # "nil" =>
                /\ recvErr' = recvErr
                /\ metricReceived' = metricReceived
                /\ stream' = stream \/ stream' = Append(stream, Len(arrived) + 1)]_vars

\* The stream ended with one record in the batch: it was flushed and saved,
\* and the loop returned the wrapped io.EOF with no shutdown signal.
C36_Witness ==
    /\ lpc = "done"
    /\ cret = "recv: EOF"
    /\ ~collDone /\ ~timedOut
    /\ Len(arrived) = 1
    /\ saved[1] = 1

\* ------------------------------------------------------------------ C37

\* What QueryTelemetry(g, nil, nil) returns for each gpu, with the content
\* of each record's metrics map, and what ListGPUs returns.
StoredView ==
    [g \in KeyIds |->
        [k \in DOMAIN data[g] |->
            [ts |-> data[g][k].ts, id |-> data[g][k].id,
             metrics |-> metricsOf[data[g][k].id]]]]

\* C37: what QueryTelemetry and ListGPUs return changes only by a
\* SaveTelemetry call, never by what a caller does to a result it holds.
C37_QueryIsolation ==
    [][(StoredView' # StoredView \/ ListGPUs(data') # ListGPUs(data))
          => Len(savedLog') = Len(savedLog) + 1]_vars

\* ------------------------------------------------------------------ C38

\* C38: a QueryTelemetry call with the gpu id "" returns an error and no
\* records, whichever Store implementation it is made on.
C38_QueryRequiresGpuId ==
    (qres.done /\ qres.gpu = EmptyGpuId) => (qres.err # "nil" /\ qres.out = <<>>)

\* ------------------------------------------------------------------ C39

\* The step is a SaveTelemetry call, for the gpu SavedGpu, of the record NewId.
Saves == Len(savedLog') = Len(savedLog) + 1
SavedGpu == savedLog'[Len(savedLog')].gpu
NewId == Len(savedLog')

\* C39: a SaveTelemetry call adds one entry to the timeline of its gpu, keeps
\* the entries that were there in their order, and leaves every other
\* timeline as it was; so a timeline holds one entry per save for its gpu,
\* equal timestamps included, and entries (stored or returned by a query)
\* with equal timestamps stand in the order of their saves.
C39_SaveAppends ==
    /\ [](/\ \A g \in KeyIds :
                /\ Len(data[g]) = Cardinality(SavedFor(g, Len(savedLog)))
                /\ {data[g][k].id : k \in DOMAIN data[g]} = SavedFor(g, Len(savedLog))
                /\ \A j, k \in DOMAIN data[g] :
                      (j < k /\ data[g][j].ts = data[g][k].ts)
                          => data[g][j].id < data[g][k].id
          /\ qres.done =>
                \A j, k \in DOMAIN qres.out :
                    (j < k /\ qres.out[j].ts = qres.out[k].ts)
                        => qres.out[j].id < qres.out[k].id)
    /\ [][Saves =>
            /\ Len(data'[SavedGpu]) = Len(data[SavedGpu]) + 1
            /\ SelectSeq(data'[SavedGpu], LAMBDA it : it.id # NewId) = data[SavedGpu]
            /\ \A h \in KeyIds \ {SavedGpu} : data'[h] = data[h]]_vars

\* Saved at 2, 1 and 2 again for one gpu: the timeline holds all three, and
\* the query returns the two records at 2 in the order of their saves.
C39_Witness ==
    /\ [i \in DOMAIN savedLog |-> savedLog[i].ts] = <<2, 1, 2>>
    /\ \A i \in DOMAIN savedLog : savedLog[i].gpu = 1
    /\ qres.done /\ qres.gpu = 1 /\ qres.at = 3
    /\ qres.start = NoTime /\ qres.end = NoTime
    /\ [k \in DOMAIN qres.out |-> qres.out[k].id] = <<2, 1, 3>>

\* ------------------------------------------------------------------ C40

\* C40: jobs is closed in the step that takes the loop to its wait for the
\* workers, and in no other: the loop waits or has returned exactly when jobs
\* is closed, and from the wait it can only return, so there is one close on
\* each path; once closed, jobs only loses jobs to the workers; a worker
\* leaves its range loop only with jobs closed and empty and no item in
\* hand; and after the close every worker leaves it.
C40_JobsChannelProtocol ==
    /\ [](/\ jobsClosed <=> lpc \in {"wait", "done"}
          /\ \A w \in Workers :
                wpc[w] = "exit" => (jobsClosed /\ jobs = <<>> /\ wjob[w] = <<>>))
    /\ [][/\ jobsClosed =>
                /\ jobsClosed'
                /\ jobs' = jobs \/ (jobs # <<>> /\ jobs' = Tail(jobs))
                /\ lpc' \in {lpc, "done"}
          /\ (~jobsClosed /\ jobsClosed') => (lpc \in {"select", "recv", "send"} /\ lpc' = "wait")
          /\ \A w \in Workers : wpc[w] = "exit" => wpc'[w] = "exit"]_vars
    /\ (jobsClosed ~> (\A w \in Workers : wpc[w] = "exit"))

\* The stream ended and jobs was closed after the final flush; the workers
\* have tried all four records and left, and the loop is about to return.
C40_Witness ==
    /\ lpc = "wait"
    /\ jobsClosed
    /\ \A w \in Workers : wpc[w] = "exit"
    /\ SaveCalls = 4
    /\ recvErr = "EOF"

====
